---------------------------- MODULE Spec2Model ----------------------------
(***************************************************************************)
(* Verification model of the fastener quotation application.               *)
(*                                                                         *)
(* Text is modelled as sequences of one-character strings, so that         *)
(* tokenising, case folding and parsing are computed the way the Python    *)
(* code computes them.  Python's None / a missing dictionary key is the    *)
(* value None.                                                             *)
(*                                                                         *)
(* Specifications:                                                         *)
(*   Spec      - the per-(row, slot) widget state of the mapping page      *)
(*               (src/app3.py), driven by user selections and page reruns  *)
(*   SpecCombo - parse_combo_input applied to bounded input texts          *)
(*   SpecCalc  - find_rate followed by the rate-to-weight conversion of    *)
(*               the single-item and the combo calculation                 *)
(*   SpecSort  - sort_diameters applied to bounded label lists             *)
(*   SpecCat   - load_catalogue run record by record over bounded lists of *)
(*               raw catalogue records                                     *)
(*   SpecCas   - the three passes of the dimension-standard filter cascade *)
(*               of the mapping page over bounded standards indexes        *)
(*   SpecDin   - build_din_index run item by item over bounded standards   *)
(*               documents                                                 *)
(*   SpecNm    - normalize and normalized_token_in_text applied to bounded *)
(*               tokens and texts                                          *)
(*   SpecSyn   - find_all_synonym_matches applied to bounded descriptions  *)
(*               and synonym maps                                          *)
(*   SpecDu    - the two detect_dimension_unit definitions applied to      *)
(*               bounded descriptions                                      *)
(*   SpecGr    - get_grades_from_desc applied to bounded descriptions and  *)
(*               reference grades                                          *)
(*   SpecFam   - the family derivations of app3.py and of                  *)
(*               app3_with_synonyms.py applied to bounded standards        *)
(***************************************************************************)
EXTENDS Integers, Sequences, FiniteSets, TLC

VARIABLES
    session,     \* st.session_state: slot -> field -> value or None (key not present)
    df,          \* the data frame cells Type_n .. Finish_n of the last run: slot -> field -> value
    pc,          \* the script: "idle" (page shown), "start" (rerun requested), "render"
    cursor,      \* while rendering: the index in SlotOrder of the block rendered next
    selections,  \* number of user selections made so far
    userChoice,  \* history: the latest value the user picked in a widget, or None
    autoWrote,   \* history: the slot whose Grade_n cell the last step auto-mapped (line 1139)
    lastStep,    \* history: kind and slot of the last step
    comboInp,    \* parse_combo_input: the text passed in
    comboDone,   \* parse_combo_input: whether it has been called
    comboOut,    \* parse_combo_input: the list returned
    calcEntries, \* the catalogue entries selected for a calculation
    calcLen,     \* requested length (length_val)
    calcDia,     \* requested diameter
    calcDim,     \* dim_type: "metric" or "inches"
    calcMode,    \* None before the calculation, then "single" or "combo"
    calcRate,    \* what find_rate returned (NoRate: None)
    calcWeight,  \* per-piece weight as a fraction <<num, den>>, NoWeight if none was computed
    sortIn,      \* sort_diameters: the label list passed in
    sortDim,     \* sort_diameters: dim_type
    sortDone,    \* sort_diameters: "new", "sorted" (called once), "resorted" (called on its result)
    sortOut,     \* sort_diameters: the list returned
    catRaw,      \* load_catalogue: raw, the list json.load returned
    catPos,      \* load_catalogue: index in raw of the record handled next
    catOut,      \* load_catalogue: normalized, the list being built
    catLog,      \* history: per record handled, the shape that took it and the entries it gave
    catPc,       \* load_catalogue: "off", "loop", "returned" or "raised" (an exception left it)
    casIn,       \* filter cascade: the index items, the selected type, family and unit
    casOpts,     \* filter cascade: dim_opts
    casRan,      \* history: the passes that ran, each with dim_opts as it left it
    casPc,       \* filter cascade: "off", "pass1", "pass2", "pass3", "dedupe", "done"
    casList,     \* filter cascade: dim_list
    dinData,     \* build_din_index: din_data
    dinPos,      \* build_din_index: the next top-level item (or entry) of din_data
    dinSt,       \* build_din_index: categories and global_finishes
    dinFin,      \* build_din_index: dedup_fin
    dinPc,       \* build_din_index: "off", "loop" or "returned"
    nmIn,        \* normalizers: the token and the text given
    nmOut,       \* normalizers: normalize(text), normalize of that, and the match
    nmPc,        \* normalizers: "off", "given", "normalized", "again" or "matched"
    synIn,       \* find_all_synonym_matches: desc and synonyms_dict
    synOut,      \* find_all_synonym_matches: the list returned
    synPc,       \* find_all_synonym_matches: "off", "called", "empty", "special" or "regular"
    duIn,        \* detect_dimension_unit: desc
    duOut,       \* detect_dimension_unit: the unit returned
    duPc,        \* detect_dimension_unit: "off", "called", "app3" or "synonyms" (the file of the definition run)
    grIn,        \* get_grades_from_desc: desc and the reference grades (all_grades)
    grSt,        \* get_grades_from_desc: candidates, matches and exact_match
    grOut,       \* get_grades_from_desc: the list returned
    grPc,        \* get_grades_from_desc: "off", "called", "matched" or "returned"
    famIn,       \* family derivation: the standard of a record
    famOut,      \* family derivation: the family derived
    famPc        \* family derivation: "off", "called", "app3" or "synonyms"

vars == <<session, df, pc, cursor, selections, userChoice, autoWrote, lastStep, comboInp, comboDone, comboOut,
          calcEntries, calcLen, calcDia, calcDim, calcMode, calcRate, calcWeight,
          sortIn, sortDim, sortDone, sortOut,
          catRaw, catPos, catOut, catLog, catPc,
          casIn, casOpts, casRan, casPc, casList,
          dinData, dinPos, dinSt, dinFin, dinPc,
          nmIn, nmOut, nmPc,
          synIn, synOut, synPc,
          duIn, duOut, duPc,
          grIn, grSt, grOut, grPc,
          famIn, famOut, famPc>>

overrideVars == <<session, df, pc, cursor, selections, userChoice, autoWrote, lastStep>>
comboVars == <<comboInp, comboDone, comboOut>>
calcVars == <<calcEntries, calcLen, calcDia, calcDim, calcMode, calcRate, calcWeight>>
sortVars == <<sortIn, sortDim, sortDone, sortOut>>
catVars == <<catRaw, catPos, catOut, catLog, catPc>>
\* the variables of the sub-models below the mapping page section
casVars == <<casIn, casOpts, casRan, casPc, casList>>
dinVars == <<dinData, dinPos, dinSt, dinFin, dinPc>>
nmVars == <<nmIn, nmOut, nmPc>>
synVars == <<synIn, synOut, synPc>>
duVars == <<duIn, duOut, duPc>>
grVars == <<grIn, grSt, grOut, grPc>>
famVars == <<famIn, famOut, famPc>>
moreVars == <<catVars, casVars, dinVars, nmVars, synVars, duVars, grVars, famVars>>
FirstVars == <<overrideVars, comboVars, calcVars, sortVars>>

\* Python's None where the other values are strings; NoRate where they are
\* rates (numbers); NoWeight where they are fractions.
None == "None"
NoRate == -1
NoWeight == <<>>

-----------------------------------------------------------------------------
(* Characters and strings *)

LowerLetters == <<"a","b","c","d","e","f","g","h","i","j","k","l","m",
                  "n","o","p","q","r","s","t","u","v","w","x","y","z">>
UpperLetters == <<"A","B","C","D","E","F","G","H","I","J","K","L","M",
                  "N","O","P","Q","R","S","T","U","V","W","X","Y","Z">>
Digits == <<"0","1","2","3","4","5","6","7","8","9">>

IsLower(c) == \E k \in 1..26 : LowerLetters[k] = c
IsUpper(c) == \E k \in 1..26 : UpperLetters[k] = c
IsAlpha(c) == IsLower(c) \/ IsUpper(c)
IsDigit(c) == \E k \in 1..10 : Digits[k] = c
DigitVal(c) == (CHOOSE k \in 1..10 : Digits[k] = c) - 1

\* str.lower() / str.upper() on one character
LowerChar(c) == IF IsUpper(c) THEN LowerLetters[CHOOSE k \in 1..26 : UpperLetters[k] = c] ELSE c
UpperChar(c) == IF IsLower(c) THEN UpperLetters[CHOOSE k \in 1..26 : LowerLetters[k] = c] ELSE c
LowerStr(s) == [k \in 1..Len(s) |-> LowerChar(s[k])]
UpperStr(s) == [k \in 1..Len(s) |-> UpperChar(s[k])]

\* Python's  a in b  on strings
IsSubstr(a, b) ==
    \E p \in 0..(Len(b) - Len(a)) : \A k \in 1..Len(a) : b[p + k] = a[k]

RECURSIVE Concat(_)
Concat(ss) == IF ss = <<>> THEN <<>> ELSE Head(ss) \o Concat(Tail(ss))

\* int(w) for a string of decimal digits
RECURSIVE IntOf(_)
IntOf(w) == IF w = <<>> THEN 0 ELSE 10 * IntOf(SubSeq(w, 1, Len(w) - 1)) + DigitVal(w[Len(w)])

\* all sequences over S of length at most n
SeqsUpTo(S, n) == UNION {[1..k -> S] : k \in 0..n}

-----------------------------------------------------------------------------
(* parse_combo_input *)

\* re.findall(r"[A-Za-z]+|\d+", s): the maximal runs of letters and of digits,
\* left to right.  cur is the run being read, acc the runs already closed.
CharClass(c) == IF IsAlpha(c) THEN "alpha" ELSE IF IsDigit(c) THEN "digit" ELSE "other"

RECURSIVE FindRuns(_, _, _)
FindRuns(s, cur, acc) ==
    IF s = <<>> THEN (IF cur = <<>> THEN acc ELSE Append(acc, cur))
    ELSE LET c == Head(s) IN
         IF CharClass(c) = "other"
         THEN FindRuns(Tail(s), <<>>, IF cur = <<>> THEN acc ELSE Append(acc, cur))
         ELSE IF cur # <<>> /\ CharClass(cur[1]) # CharClass(c)
         THEN FindRuns(Tail(s), <<c>>, Append(acc, cur))
         ELSE FindRuns(Tail(s), Append(cur, c), acc)

ComboWords(inp) == FindRuns(LowerStr(inp), <<>>, <<>>)

CategoryWords == { <<"s","t","u","d">>, <<"n","u","t">>, <<"w","a","s","h","e","r">>,
                   <<"b","o","l","t">>, <<"s","c","r","e","w">> }

\* w.isdigit() on a non-empty run
IsDigitWord(w) == \A k \in 1..Len(w) : IsDigit(w[k])

\* one iteration of the for loop of parse_combo_input: word w against the
\* locals qty and combo
ComboStepResetsOnOther(w, qty, combo) ==
    IF IsDigitWord(w) THEN [qty |-> IntOf(w), combo |-> combo]
    ELSE IF w \in CategoryWords
    THEN [qty |-> 1, combo |-> Append(combo, [type |-> w, count |-> qty])]
    ELSE [qty |-> 1, combo |-> combo]

ComboStep(w, qty, combo) ==
    IF IsDigitWord(w) THEN [qty |-> IntOf(w), combo |-> combo]
    ELSE IF w \in CategoryWords
    THEN [qty |-> 1, combo |-> Append(combo, [type |-> w, count |-> qty])]
    ELSE [qty |-> qty, combo |-> combo]

RECURSIVE ComboLoop(_, _, _)
ComboLoop(words, qty, combo) ==
    IF words = <<>> THEN combo
    ELSE LET r == ComboStep(Head(words), qty, combo)
         IN  ComboLoop(Tail(words), r.qty, r.combo)

parse_combo_input(inp) == ComboLoop(ComboWords(inp), 1, <<>>)

\* Inputs: texts built from at most MaxPieces pieces, and the text of the
\* documented example.
MaxPieces == 4
ComboPieces == { <<"N","u","t">>, <<"s","t","u","d">>, <<"2">>, <<"0">>, <<"1">>,
                 <<" ">>, <<"x">>, <<"s">> }
ExampleComboText ==
    <<"S","T","U","D"," ","W","I","T","H"," ","2"," ","N","U","T"," ",
      "A","N","D"," ","W","A","S","H","E","R">>
ComboInputs == {Concat(ps) : ps \in SeqsUpTo(ComboPieces, MaxPieces)} \cup {ExampleComboText}

ComboIdle == comboInp = <<>> /\ comboDone = FALSE /\ comboOut = <<>>
ComboInit == comboInp \in ComboInputs /\ comboDone = FALSE /\ comboOut = <<>>

ParseCombo ==
    /\ ~comboDone
    /\ comboOut' = parse_combo_input(comboInp)
    /\ comboDone' = TRUE
    /\ UNCHANGED <<comboInp, overrideVars, calcVars, sortVars, moreVars>>

-----------------------------------------------------------------------------
(* find_rate and the rate-to-weight conversion *)

\* A dimension row is a dict with the keys length_mm, length and diameter; a
\* key the row does not carry reads as None (dict.get).  The diameter dict is
\* kept in insertion order as a sequence of <<label, rate>> pairs.
DiaGet(dia, label) ==
    IF \E k \in 1..Len(dia) : dia[k][1] = label
    THEN dia[CHOOSE k \in 1..Len(dia) : dia[k][1] = label][2]
    ELSE NoRate

\* a test that takes only None as falsy
TruthyUnlessNone(v) == v # NoRate

\* Python truthiness of a rate value (None and 0 are falsy)
Truthy(v) == v # NoRate /\ v # 0

DimsKey(dim_type) ==
    IF dim_type = "metric" THEN "dimensions_in_metric" ELSE "dimensions_in_inches"

\* the condition of line 105
RowMatchesNoAgnostic(dim, length_val) ==
    dim.length_mm = length_val \/ dim.length = length_val

RowMatches(dim, length_val) ==
    dim.length_mm = length_val \/ dim.length = length_val \/ dim.length_mm = None

\* the inner loop of find_rate over one entry's rows; None when it falls through
RECURSIVE FindInRows(_, _, _)
FindInRows(rows, length_val, diameter) ==
    IF rows = <<>> THEN NoRate
    ELSE LET dim == Head(rows)
             val == DiaGet(dim.diameter, diameter)
         IN  IF RowMatches(dim, length_val) /\ Truthy(val) THEN val
             ELSE FindInRows(Tail(rows), length_val, diameter)

RECURSIVE find_rate(_, _, _, _)
find_rate(entries, length_val, diameter, dim_type) ==
    IF entries = <<>> THEN NoRate
    ELSE LET r == FindInRows(Head(entries)[DimsKey(dim_type)], length_val, diameter)
         IN  IF r # NoRate THEN r
             ELSE find_rate(Tail(entries), length_val, diameter, dim_type)

\* Weights are exact fractions <<numerator, denominator>> in lowest terms.
RECURSIVE GCD(_, _)
GCD(a, b) == IF b = 0 THEN a ELSE GCD(b, a % b)
Frac(n, d) == LET g == GCD(n, d) IN <<n \div g, d \div g>>

\* str.strip()
RECURSIVE Strip(_)
Strip(s) ==
    IF s = <<>> THEN s
    ELSE IF Head(s) = " " THEN Strip(Tail(s))
    ELSE IF s[Len(s)] = " " THEN Strip(SubSeq(s, 1, Len(s) - 1))
    ELSE s

MarkPricePerPiece == <<"p","r","i","c","e"," ","p","e","r"," ","p","i","e","c","e">>
MarkWeightPer100 ==
    <<"a","p","p","r","o","x","."," ","w","e","i","g","h","t"," ","p","e","r"," ","1","0","0">>
Mark100Nos == <<"1","0","0"," ","n","o","s">>
MarkCountPer50 ==
    <<"a","p","p","r","o","x","."," ","c","o","u","n","t"," ","p","e","r"," ","5","0">>

\* single-item mode, lines 369-384
SingleItemWeight(unit, rate_value) ==
    LET chosen_unit == LowerStr(Strip(unit)) IN
    IF IsSubstr(MarkPricePerPiece, chosen_unit) THEN Frac(rate_value, 1)
    ELSE IF IsSubstr(MarkCountPer50, chosen_unit) THEN Frac(50, rate_value)
    ELSE IF IsSubstr(MarkWeightPer100, chosen_unit) \/ IsSubstr(Mark100Nos, chosen_unit)
    THEN Frac(rate_value, 100)
    ELSE Frac(50, rate_value)

\* combo mode, lines 236-249
ComboWeight(unit, rate_val) ==
    LET u == LowerStr(unit) IN
    IF IsSubstr(MarkPricePerPiece, u) THEN Frac(rate_val, 1)
    ELSE IF IsSubstr(MarkWeightPer100, u) \/ IsSubstr(Mark100Nos, u)
    THEN Frac(rate_val, 100)
    ELSE IF IsSubstr(MarkCountPer50, u) THEN Frac(50, rate_val)
    ELSE Frac(rate_val, 1)

\* Inputs.  Rows as load_catalogue leaves them: a metric row carries length_mm
\* (possibly None) and no length key; an inch row carries length and no
\* length_mm key (Case 1, Case 2), or length_mm = None alone (Case 3).
MaxRows == 2
LenVals == {None, "50"}
ReqLens == {None, "50", "60"}
DiaMaps == { <<>>, << <<"M10", 0>> >>, << <<"M10", 5>> >>, << <<"M10", 2000>> >>,
             << <<"M12", 7>> >> }
MetricRows == {[length_mm |-> l, length |-> None, diameter |-> m] : l \in LenVals, m \in DiaMaps}
InchRows == {[length_mm |-> None, length |-> l, diameter |-> m] : l \in LenVals, m \in DiaMaps}

UnitPricePerPiece == <<"P","r","i","c","e"," ","p","e","r"," ","p","i","e","c","e">>
UnitWeightPer100 ==
    <<"A","p","p","r","o","x","."," ","W","e","i","g","h","t"," ","p","e","r"," ",
      "1","0","0"," ","p","c","s",".">>
UnitPer100Nos == <<"K","g"," ","p","e","r"," ","1","0","0"," ","N","o","s">>
UnitCountPer50 ==
    <<"A","p","p","r","o","x","."," ","C","o","u","n","t"," ","p","e","r"," ",
      "5","0"," ","k","g","s",".">>
UnitNA == <<"N","/","A">>
UnitBothMarkers ==
    <<"A","p","p","r","o","x","."," ","C","o","u","n","t"," ","p","e","r"," ",
      "5","0"," ","k","g","s","."," ","/"," ","1","0","0"," ","n","o","s">>
Units == {UnitPricePerPiece, UnitWeightPer100, UnitPer100Nos, UnitCountPer50, UnitNA,
          UnitBothMarkers}

MkEntry(unit, dim_type, rows) ==
    [unit |-> unit,
     dimensions_in_metric |-> IF dim_type = "metric" THEN rows ELSE <<>>,
     dimensions_in_inches |-> IF dim_type = "metric" THEN <<>> ELSE rows]

\* one entry holding all the rows, or two entries: the first row, then the rest
EntryLists(unit, dim_type, rows) ==
    {<<MkEntry(unit, dim_type, rows)>>} \cup
    (IF rows = <<>> THEN {}
     ELSE {<<MkEntry(unit, dim_type, <<Head(rows)>>), MkEntry(unit, dim_type, Tail(rows))>>})

CalcIdle ==
    /\ calcEntries = <<>> /\ calcLen = None /\ calcDia = None /\ calcDim = None
    /\ calcMode = None /\ calcRate = NoRate /\ calcWeight = NoWeight

CalcInit ==
    /\ calcDim \in {"metric", "inches"}
    /\ calcLen \in ReqLens
    /\ calcDia = "M10"
    /\ \E unit \in Units :
       \E rows \in SeqsUpTo(IF calcDim = "metric" THEN MetricRows ELSE InchRows, MaxRows) :
           calcEntries \in EntryLists(unit, calcDim, rows)
    /\ calcMode = None /\ calcRate = NoRate /\ calcWeight = NoWeight

\* the Calculate button of single-item mode (one relevant entry), lines 366-395
CalculateSingle ==
    /\ calcMode = None
    /\ Len(calcEntries) = 1
    /\ LET rate_value == find_rate(calcEntries, calcLen, calcDia, calcDim) IN
       /\ calcRate' = rate_value
       /\ calcWeight' = IF Truthy(rate_value)
                        THEN SingleItemWeight(calcEntries[1].unit, rate_value)
                        ELSE NoWeight
    /\ calcMode' = "single"
    /\ UNCHANGED <<calcEntries, calcLen, calcDia, calcDim, overrideVars, comboVars, sortVars, moreVars>>

\* one component of combo mode, lines 231-249
CalculateCombo ==
    /\ calcMode = None
    /\ LET rate_val == find_rate(calcEntries, calcLen, calcDia, calcDim) IN
       /\ calcRate' = rate_val
       /\ calcWeight' = IF Truthy(rate_val)
                        THEN ComboWeight(calcEntries[1].unit, rate_val)
                        ELSE NoWeight
    /\ calcMode' = "combo"
    /\ UNCHANGED <<calcEntries, calcLen, calcDia, calcDim, overrideVars, comboVars, sortVars, moreVars>>

-----------------------------------------------------------------------------
(* sort_diameters *)

SortSentinel == 9999

\* ''.join(ch for ch in x if ch.isdigit())
DigitsOf(x) == SelectSeq(x, IsDigit)

\* metric_key, lines 113-117
metric_key(x) == IF DigitsOf(x) = <<>> THEN SortSentinel ELSE IntOf(DigitsOf(x))

\* x.replace('"', "")
DropQuotes(x) == SelectSeq(x, LAMBDA c : c # "\"")

\* val.split("/")
RECURSIVE SplitSlash(_, _, _)
SplitSlash(s, cur, acc) ==
    IF s = <<>> THEN Append(acc, cur)
    ELSE IF Head(s) = "/" THEN SplitSlash(Tail(s), <<>>, Append(acc, cur))
    ELSE SplitSlash(Tail(s), Append(cur, Head(s)), acc)

RECURSIVE Pow10(_)
Pow10(n) == IF n = 0 THEN 1 ELSE 10 * Pow10(n - 1)

\* float(s) for text over digits, ".", spaces and other characters: surrounding
\* whitespace is dropped, then digits with at most one "." and at least one
\* digit are read; anything else raises ValueError (NoWeight here).  The value
\* is the exact fraction <<numerator, denominator>>.
ParseFloat(s) ==
    LET t == Strip(s)
        dots == {k \in 1..Len(t) : t[k] = "."}
        ds == DigitsOf(t)
    IN  IF t = <<>> \/ ds = <<>> \/ Cardinality(dots) > 1
           \/ \E k \in 1..Len(t) : ~IsDigit(t[k]) /\ t[k] # "."
        THEN NoWeight
        ELSE IF dots = {} THEN <<IntOf(ds), 1>>
        ELSE LET d == CHOOSE k \in dots : TRUE
             IN  <<IntOf(ds), Pow10(Len(t) - d)>>

\* inch_key, lines 118-126; the bare except turns every error into the sentinel
inch_key(x) ==
    LET val == DropQuotes(x) IN
    IF \E k \in 1..Len(val) : val[k] = "/"
    THEN LET parts == SplitSlash(val, <<>>, <<>>) IN
         IF Len(parts) # 2 THEN <<SortSentinel, 1>>
         ELSE LET n == ParseFloat(parts[1])
                  d == ParseFloat(parts[2])
              IN  IF n = NoWeight \/ d = NoWeight THEN <<SortSentinel, 1>>
                  ELSE IF d[1] = 0 THEN <<SortSentinel, 1>>
                  ELSE <<n[1] * d[2], n[2] * d[1]>>
    ELSE LET v == ParseFloat(val) IN
         IF v = NoWeight THEN <<SortSentinel, 1>> ELSE v

\* the key function line 127 selects, as a fraction
SortKey(x, dim_type) == IF dim_type = "metric" THEN <<metric_key(x), 1>> ELSE inch_key(x)

KeyLess(a, b) == a[1] * b[2] < b[1] * a[2]

\* list(dict.fromkeys(diam_list)): first occurrences, in order
DedupeKeepsAll(xs) == xs

Dedupe(xs) ==
    LET firsts == {k \in 1..Len(xs) : \A j \in 1..(k - 1) : xs[j] # xs[k]}
        F[k \in 0..Len(xs)] ==
            IF k = 0 THEN <<>>
            ELSE IF k \in firsts THEN Append(F[k - 1], xs[k]) ELSE F[k - 1]
    IN  F[Len(xs)]

\* sorted(..., key=...): a stable sort, here by insertion.  x goes before the
\* first element whose key is greater than its own.
InsertBeforeEqual(sorted, x, dim_type) ==
    LET later == {k \in 1..Len(sorted) :
                    ~KeyLess(SortKey(sorted[k], dim_type), SortKey(x, dim_type))}
        at == IF later = {} THEN Len(sorted) + 1
              ELSE CHOOSE k \in later : \A j \in later : k <= j
    IN  SubSeq(sorted, 1, at - 1) \o <<x>> \o SubSeq(sorted, at, Len(sorted))

InsertStable(sorted, x, dim_type) ==
    LET later == {k \in 1..Len(sorted) :
                    KeyLess(SortKey(x, dim_type), SortKey(sorted[k], dim_type))}
        at == IF later = {} THEN Len(sorted) + 1
              ELSE CHOOSE k \in later : \A j \in later : k <= j
    IN  SubSeq(sorted, 1, at - 1) \o <<x>> \o SubSeq(sorted, at, Len(sorted))

RECURSIVE SortedBy(_, _, _)
SortedBy(xs, acc, dim_type) ==
    IF xs = <<>> THEN acc
    ELSE SortedBy(Tail(xs), InsertStable(acc, Head(xs), dim_type), dim_type)

sort_diameters(diam_list, dim_type) == SortedBy(Dedupe(diam_list), <<>>, dim_type)

\* Inputs: lists of at most MaxLabels labels from a pool with ties, labels
\* without digits, fractions, decimals and unparsable text.
MaxLabels == 3
LabelPool == { <<"M","1","0">>, <<"M","8">>, <<"M"," ","1","0">>,
               <<"1","/","2","\"">>, <<"2","/","4">>, <<"1","/","4">>,
               <<".","5">>, <<"1","/","0">> }

SortIdle == sortIn = <<>> /\ sortDim = None /\ sortDone = "new" /\ sortOut = <<>>
SortInit ==
    /\ sortIn \in SeqsUpTo(LabelPool, MaxLabels)
    /\ sortDim \in {"metric", "inches"}
    /\ sortDone = "new"
    /\ sortOut = <<>>

\* the diameter list of the selected entries is sorted (lines 200, 316)
SortDiameters ==
    /\ sortDone = "new"
    /\ sortOut' = sort_diameters(sortIn, sortDim)
    /\ sortDone' = "sorted"
    /\ UNCHANGED <<sortIn, sortDim, overrideVars, comboVars, calcVars, moreVars>>

\* the sorted list is passed to sort_diameters again
SortAgain ==
    /\ sortDone = "sorted"
    /\ sortIn' = sortOut
    /\ sortOut' = sort_diameters(sortOut, sortDim)
    /\ sortDone' = "resorted"
    /\ UNCHANGED <<sortDim, overrideVars, comboVars, calcVars, moreVars>>

-----------------------------------------------------------------------------
(* normalize, normalize_preserve_space, normalized_token_in_text (src/app3.py) *)

IsUpperAlnum(c) == IsUpper(c) \/ IsDigit(c)

\* normalize without the upper-casing
normalizeKeepsCase(text) == SelectSeq(text, IsUpperAlnum)

\* re.sub(r"[^A-Z0-9]", "", str(text).upper())
normalize(text) == SelectSeq(UpperStr(text), IsUpperAlnum)

\* re.sub(r"[^A-Z0-9\s]", " ", str(text).upper()).strip()
normalize_preserve_space(text) ==
    Strip([k \in 1..Len(text) |->
              LET c == UpperChar(text[k]) IN IF IsUpperAlnum(c) \/ c = " " THEN c ELSE " "])

\* \w of the regular expression
IsWordChar(c) == IsAlpha(c) \/ IsDigit(c) \/ c = "_"

\* \b at the position after the first p characters of txt
AtWordBoundary(txt, p) ==
    LET before == p >= 1 /\ IsWordChar(txt[p])
        after == p < Len(txt) /\ IsWordChar(txt[p + 1])
    IN  before # after

\* re.search(r"\b" + re.escape(tok) + r"\b", txt)
WordBoundarySearch(tok, txt) ==
    \E p \in 0..(Len(txt) - Len(tok)) :
        /\ \A k \in 1..Len(tok) : txt[p + k] = tok[k]
        /\ AtWordBoundary(txt, p)
        /\ AtWordBoundary(txt, p + Len(tok))

\* normalized_token_in_text without its first tier, the containment of the
\* strict-normalized token
tokenInTextByWordsOnly(token, text) ==
    IF token = <<>> \/ text = <<>> THEN FALSE
    ELSE IF normalize(token) = <<>> THEN FALSE
    ELSE WordBoundarySearch(normalize_preserve_space(token), normalize_preserve_space(text))

\* normalized_token_in_text, lines 31-48: the containment tier, then the
\* word-boundary tier
normalized_token_in_text(token, text) ==
    IF token = <<>> \/ text = <<>> THEN FALSE
    ELSE IF normalize(token) = <<>> THEN FALSE
    ELSE IF IsSubstr(normalize(token), normalize(text)) THEN TRUE
    ELSE WordBoundarySearch(normalize_preserve_space(token), normalize_preserve_space(text))

-----------------------------------------------------------------------------
(* The mapping page: one block of six keyed select boxes per (row, slot) *)

\* Widget values are atomic strings ("" is the empty choice); Chars gives the
\* text of a grade or finish token for matching against the description.
Chars(v) ==
    CASE v = "A2" -> <<"A","2">>
      [] v = "B7" -> <<"B","7">>
      [] v = "ZINC" -> <<"Z","I","N","C">>
      [] v = "HDG" -> <<"H","D","G">>
      [] OTHER -> <<>>

\* The uploaded table: row 0 names a grade and a finish and has two detected
\* categories, row 1 names neither and has one.
RowDesc(i) ==
    IF i = 0 THEN <<"B","o","l","t"," ","&"," ","n","u","t"," ","A","-","2"," ","z","i","n","c">>
    ELSE <<"N","u","t"," ","M","1","0">>
SlotOrder == << <<0, 1>>, <<0, 2>>, <<1, 1>> >>
Slots == {SlotOrder[k] : k \in 1..Len(SlotOrder)}
Fields == {"type", "family", "unit", "dim", "grade", "finish"}

\* The standards index of the model lists the same dimension standards,
\* grades and finishes under every type, so the option list of a widget does
\* not depend on the other widgets of its slot.
t_opts == <<"HEX HEAD", "T-HEAD">>
family_options == <<"", "DIN", "ISO">>
unit_options == <<"metric", "inch">>
dim_list == <<"DIN 931", "DIN 933">>
grade_set == <<"B7", "A2">>
all_grades == <<"A2", "B7">>
fin_set == <<"HDG", "ZINC">>

Options(field) ==
    CASE field = "type" -> <<"">> \o t_opts
      [] field = "family" -> family_options
      [] field = "unit" -> unit_options
      [] field = "dim" -> <<"">> \o dim_list
      [] field = "grade" -> <<"">> \o grade_set
      [] field = "finish" -> <<"">> \o fin_set

\* the session_state key of a widget (lines 832-837) and the data frame cell
\* of a slot (row i, column "<Field>_<t_idx+1>")
KeySharedByRow(slot, field) == <<"row", slot[1], field, 1>>
Key(slot, field) == <<"row", slot[1], field, slot[2]>>
Cell(slot, field) == <<slot[1], field, slot[2]>>
Keys == {Key(s, f) : s \in Slots, f \in Fields}
Cells == {Cell(s, f) : s \in Slots, f \in Fields}

\* st.selectbox(options, index, key): the widget keeps the value session_state
\* holds under its key, and takes options[index] when the key is new
Selectbox(sv, options, index) == IF sv # None THEN sv ELSE options[index + 1]

\* Python's  a or b  on strings
Or(a, b) == IF a # "" THEN a ELSE b

\* first element of seq satisfying the token test, "" if none
FirstTokenIn(seq, desc) ==
    LET hits == {k \in 1..Len(seq) : normalized_token_in_text(Chars(seq[k]), desc)}
    IN  IF hits = {} THEN "" ELSE seq[CHOOSE k \in hits : \A j \in hits : k <= j]

\* index of the first non-empty option whose normalized text equals the target's, else 0
MatchedIndex(options, target) ==
    LET hits == {k \in 1..Len(options) :
                    options[k] # "" /\ normalize(Chars(options[k])) = normalize(Chars(target))}
    IN  IF hits = {} THEN 0 ELSE (CHOOSE k \in hits : \A j \in hits : k <= j) - 1

IndexOf(options, v) ==
    IF \E k \in 1..Len(options) : options[k] = v
    THEN (CHOOSE k \in 1..Len(options) : options[k] = v) - 1
    ELSE 0

\* Grade block, lines 1121-1161.  sv: session_state.get(key_grade) (None when
\* the key is absent), dv: the Grade_n cell when the block starts.  wrote: the
\* auto-mapping branch ran, i.e. line 1139 wrote exact_found to the cell.
ExactFound(desc) ==
    LET e == FirstTokenIn(grade_set, desc)
    IN  IF e # "" THEN e ELSE FirstTokenIn(all_grades, desc)

\* exact_found per row of the table (the description does not change between runs)
Rows == {slot[1] : slot \in Slots}
ExactFoundOfRow == [i \in Rows |-> ExactFound(RowDesc(i))]

GradeBlockUnguarded(sv, dv, exact_found) ==
    LET sv1 == IF exact_found # "" THEN exact_found ELSE sv
        default_grade == IF exact_found # "" THEN exact_found
                         ELSE Or(dv, IF grade_set # <<>> THEN grade_set[1] ELSE "")
        grade_sel == Selectbox(sv1, Options("grade"),
                               MatchedIndex(Options("grade"), default_grade))
    IN  [sess |-> grade_sel, df |-> Or(grade_sel, ""), wrote |-> exact_found # ""]

GradeBlock(sv, dv, exact_found) ==
    LET manual_grade == IF sv = None THEN "" ELSE sv
        auto == exact_found # "" /\ manual_grade = ""
        fresh == auto /\ sv = None
        sv1 == IF fresh THEN exact_found ELSE sv
        dv1 == IF auto THEN exact_found ELSE dv
        default_grade ==
            IF auto THEN (IF fresh THEN exact_found ELSE Or(dv, ""))
            ELSE Or(manual_grade, Or(dv1, IF grade_set # <<>> THEN grade_set[1] ELSE ""))
        target == Or(IF sv1 = None THEN default_grade ELSE sv1, "")
        grade_sel == Selectbox(sv1, Options("grade"), MatchedIndex(Options("grade"), target))
    IN  [sess |-> grade_sel, df |-> Or(grade_sel, ""), wrote |-> auto]

\* Finish block, lines 1186-1203.  hit: the first finish of fin_set found in
\* the description by the loop of lines 1188-1194 ("" if none)
FinishHitOfRow == [i \in Rows |-> FirstTokenIn(fin_set, RowDesc(i))]

FinishBlock(sv, dv, hit) ==
    LET default_fin == IF hit # "" THEN hit ELSE Or(dv, "")
        sv1 == IF hit # "" THEN hit ELSE sv
        fin_sel == Selectbox(sv1, Options("finish"), IndexOf(Options("finish"), default_fin))
    IN  [sess |-> fin_sel, df |-> Or(fin_sel, "")]

\* Type, family, unit and dimension blocks (lines 886-896, 932-935, 940-950,
\* 1077-1093): a select box whose default is default, the cell takes its value
PlainBlock(sv, field, default) ==
    LET sel == Selectbox(sv, Options(field), IndexOf(Options(field), default))
    IN  [sess |-> sel, df |-> sel]

\* defaults of the four plain widgets for the rows of the model: the first
\* type, no family named in the description, the metric fallback of line 942,
\* the first dimension standard
DefaultOf(field) ==
    CASE field = "type" -> t_opts[1]
      [] field = "family" -> family_options[1]
      [] field = "unit" -> "metric"
      [] field = "dim" -> dim_list[1]

\* what the block of one widget leaves under its key and in its cell
FieldResult(ss, dd, slot, field) ==
    CHOOSE r \in
        { IF field = "grade" THEN GradeBlock(sv, dv, ExactFoundOfRow[slot[1]])
          ELSE IF field = "finish"
          THEN [wrote |-> FALSE] @@ FinishBlock(sv, dv, FinishHitOfRow[slot[1]])
          ELSE [wrote |-> FALSE] @@ PlainBlock(sv, field, DefaultOf(field))
          : sv \in {ss[Key(slot, field)]}, dv \in {dd[Cell(slot, field)]} } : TRUE

\* the whole block of one slot, lines 832-1203: the six widgets, each reading
\* and writing session_state under its own key and its own data frame cell
RenderResult(ss, dd, slot) ==
    LET res == [f \in Fields |-> FieldResult(ss, dd, slot, f)] IN
    [ss |-> [k \in DOMAIN ss |->
                IF \E f \in Fields : k = Key(slot, f)
                THEN res[CHOOSE f \in Fields : k = Key(slot, f)].sess
                ELSE ss[k]],
     dd |-> [c \in DOMAIN dd |->
                IF \E f \in Fields : c = Cell(slot, f)
                THEN res[CHOOSE f \in Fields : c = Cell(slot, f)].df
                ELSE dd[c]],
     wrote |-> res["grade"].wrote]

MaxSelections == 2
NoSlot == <<0, 0>>

OverrideIdle ==
    /\ session = <<>> /\ df = <<>> /\ pc = "off" /\ cursor = 0 /\ selections = 0
    /\ userChoice = <<>> /\ autoWrote = {} /\ lastStep = [kind |-> "none", slot |-> NoSlot]

OverrideInit ==
    /\ session = [k \in Keys |-> None]
    /\ df = [c \in Cells |-> ""]
    /\ pc = "idle"
    /\ cursor = 0
    /\ selections = 0
    /\ userChoice = [s \in Slots |-> [grade |-> None, finish |-> None]]
    /\ autoWrote = {}
    /\ lastStep = [kind |-> "none", slot |-> NoSlot]

\* the file is uploaded, or the user touches a widget outside the mapped rows:
\* Streamlit reruns the script
Rerun ==
    /\ pc = "idle"
    /\ pc' = "start"
    /\ lastStep' = [kind |-> "rerun", slot |-> NoSlot]
    /\ autoWrote' = {}
    /\ UNCHANGED <<session, df, cursor, selections, userChoice, comboVars, calcVars, sortVars, moreVars>>

\* the user picks value v in the select box of (slot, field): Streamlit stores
\* it under the widget's key and reruns the script (stopping a running one)
UserSelect(slot, field, v) ==
    /\ pc \in {"idle", "render"}
    /\ selections < MaxSelections
    /\ session[Key(slot, field)] # None
    /\ session[Key(slot, field)] # v
    /\ session' = [session EXCEPT ![Key(slot, field)] = v]
    /\ userChoice' = IF field \in {"grade", "finish"}
                     THEN [userChoice EXCEPT ![slot][field] = v]
                     ELSE userChoice
    /\ selections' = selections + 1
    /\ pc' = "start"
    /\ lastStep' = [kind |-> "select", slot |-> slot]
    /\ autoWrote' = {}
    /\ UNCHANGED <<df, cursor, comboVars, calcVars, sortVars, moreVars>>

\* the script starts: the data frame is read again from the uploaded file
\* (line 630), its per-slot columns are created empty (lines 790-801)
StartRun ==
    /\ pc = "start"
    /\ df' = [c \in Cells |-> ""]
    /\ pc' = "render"
    /\ cursor' = 1
    /\ lastStep' = [kind |-> "start", slot |-> NoSlot]
    /\ autoWrote' = {}
    /\ UNCHANGED <<session, selections, userChoice, comboVars, calcVars, sortVars, moreVars>>

\* the block of the next slot is rendered
RenderSlot ==
    /\ pc = "render"
    /\ \E r \in {RenderResult(session, df, SlotOrder[cursor])} :
           /\ session' = r.ss
           /\ df' = r.dd
           /\ autoWrote' = IF r.wrote THEN {SlotOrder[cursor]} ELSE {}
           /\ lastStep' = [kind |-> "render", slot |-> SlotOrder[cursor]]
    /\ IF cursor = Len(SlotOrder)
       THEN pc' = "idle" /\ cursor' = 0
       ELSE pc' = "render" /\ cursor' = cursor + 1
    /\ UNCHANGED <<selections, userChoice, comboVars, calcVars, sortVars, moreVars>>

-----------------------------------------------------------------------------
(* load_catalogue (src/app.py) *)

\* A JSON value carries its Python type: text, a number, None, a list, or a
\* dict.  A dict is the sequence of its <<key, value>> items in insertion
\* order; keys are text.
Str(t) == [tag |-> "str", v |-> t]
Num(n) == [tag |-> "num", v |-> n]
NoneVal == [tag |-> "none", v |-> <<>>]
List(xs) == [tag |-> "list", v |-> xs]
Dict(items) == [tag |-> "dict", v |-> items]

\* k in d, d.get(k, default), d[k] = val on the items of a dict
HasKey(items, k) == \E i \in 1..Len(items) : items[i][1] = k
Get(items, k, default) ==
    IF HasKey(items, k) THEN items[CHOOSE i \in 1..Len(items) : items[i][1] = k][2]
    ELSE default
Put(items, k, val) ==
    IF HasKey(items, k)
    THEN [i \in 1..Len(items) |-> IF items[i][1] = k THEN <<k, val>> ELSE items[i]]
    ELSE Append(items, <<k, val>>)

\* a dict comprehension {f(k): v for k, v in ...}: the items are put in order
RECURSIVE DictOf(_, _)
DictOf(pairs, acc) ==
    IF pairs = <<>> THEN acc
    ELSE DictOf(Tail(pairs), Put(acc, Head(pairs)[1], Head(pairs)[2]))

\* s.startswith(p), s.replace(old, new) for non-empty old
StartsWith(s, p) == Len(p) <= Len(s) /\ SubSeq(s, 1, Len(p)) = p
RECURSIVE Replace(_, _, _)
Replace(s, old, new) ==
    IF s = <<>> THEN <<>>
    ELSE IF StartsWith(s, old) THEN new \o Replace(SubSeq(s, Len(old) + 1, Len(s)), old, new)
    ELSE <<Head(s)>> \o Replace(Tail(s), old, new)

\* Python truthiness of a JSON value
TruthyVal(x) ==
    CASE x.tag = "none" -> FALSE
      [] x.tag = "num" -> x.v # 0
      [] OTHER -> x.v # <<>>

\* a or b
OrVal(a, b) == IF TruthyVal(a) THEN a ELSE b

\* the keys load_catalogue looks for
CatKey ==
    [screw_type |-> <<"s","c","r","e","w","_","t","y","p","e">>,
     title |-> <<"t","i","t","l","e">>,
     dimensions_unit |-> <<"d","i","m","e","n","s","i","o","n","s","_","u","n","i","t">>,
     data |-> <<"d","a","t","a">>,
     approx_count_per_50_kgs |-> <<"a","p","p","r","o","x","_","c","o","u","n","t","_","p","e","r","_","5","0","_","k","g","s">>,
     hex_locknuts |-> <<"h","e","x","_","l","o","c","k","n","u","t","s","_","b","s","w","_","b","s","f","_","a","p","p","r","o","x","_","w","e","i","g","h","t","_","p","e","r","_","1","0","0","_","p","c","s">>,
     unit |-> <<"u","n","i","t">>,
     approx_count_unit |-> <<"a","p","p","r","o","x","_","c","o","u","n","t","_","u","n","i","t">>,
     dimensions_in_metric |-> <<"d","i","m","e","n","s","i","o","n","s","_","i","n","_","m","e","t","r","i","c">>,
     dimensions_in_inches |-> <<"d","i","m","e","n","s","i","o","n","s","_","i","n","_","i","n","c","h","e","s">>,
     diameter |-> <<"d","i","a","m","e","t","e","r">>,
     length_mm |-> <<"l","e","n","g","t","h","_","m","m">>,
     length |-> <<"l","e","n","g","t","h">>,
     standard |-> <<"s","t","a","n","d","a","r","d">>,
     size |-> <<"s","i","z","e">>,
     weight |-> <<"w","e","i","g","h","t">>,
     count |-> <<"c","o","u","n","t">>,
     specification |-> <<"s","p","e","c","i","f","i","c","a","t","i","o","n">>,
     height_d |-> <<"h","e","i","g","h","t","_","d">>]

\* for d in x: a list gives its elements, text its characters, a dict its
\* keys; a number or None raises TypeError
CanIter(x) == x.tag \in {"list", "str", "dict"}
Iter(x) ==
    CASE x.tag = "list" -> x.v
      [] x.tag = "str" -> [i \in 1..Len(x.v) |-> Str(<<x.v[i]>>)]
      [] x.tag = "dict" -> [i \in 1..Len(x.v) |-> Str(x.v[i][1])]

\* str(x) of text, a number (small, non-negative) or None
TextOf(x) ==
    CASE x.tag = "str" -> x.v
      [] x.tag = "num" -> <<Digits[x.v + 1]>>
      [] x.tag = "none" -> <<"N","o","n","e">>

CatText ==
    [opts |-> <<"HEX HEAD", "T-HEAD">>,
     stud_price |-> <<"s","t","u","d"," ","p","r","i","c","e">>,
     stud |-> <<"s","t","u","d">>,
     Stud_Screw |-> <<"S","t","u","d"," ","S","c","r","e","w">>,
     NA |-> <<"N","/","A">>,
     Nut |-> <<"N","u","t">>,
     inch |-> <<"i","n","c","h">>,
     metric |-> <<"m","e","t","r","i","c">>,
     diameter_ |-> <<"d","i","a","m","e","t","e","r","_">>,
     count_unit |-> <<"A","p","p","r","o","x","."," ","C","o","u","n","t"," ","p","e","r"," ","5","0"," ","k","g","s",".">>,
     weight_unit |-> <<"A","p","p","r","o","x","."," ","W","e","i","g","h","t"," ","p","e","r"," ","1","0","0"," ","p","c","s",".">>]

\* the key cleaning of a metric table (rows with length_mm): k.replace(" ", ""),
\* and of an inch table (rows with length): k.strip()
CleanKey(lenKey, k) == IF lenKey = CatKey.length_mm THEN Replace(k, <<" ">>, <<>>) ELSE Strip(k)

\* Case 1, lines 21-26 and 28-33: the rows of a table rebuilt with cleaned
\* diameter keys.  err: a row is no dict or its diameter has no items().
CleanRows(table, lenKey) ==
    LET ok == /\ CanIter(table)
              /\ \A i \in 1..Len(Iter(table)) :
                    /\ Iter(table)[i].tag = "dict"
                    /\ Get(Iter(table)[i].v, CatKey.diameter, Dict(<<>>)).tag = "dict"
    IN  IF ~ok THEN [err |-> TRUE, rows |-> <<>>]
        ELSE [err |-> FALSE,
              rows |-> [i \in 1..Len(table.v) |->
                  LET dim == table.v[i].v
                      dia == Get(dim, CatKey.diameter, Dict(<<>>)).v
                  IN  Dict(<< <<lenKey, Get(dim, lenKey, NoneVal)>>,
                              <<CatKey.diameter,
                                Dict(DictOf([j \in 1..Len(dia) |-> <<CleanKey(lenKey, dia[j][1]), dia[j][2]>>],
                                            <<>>))>> >>)]]

\* Case 1, lines 16-34.  The result of a transform: err (an exception was
\* raised) and out, the entries appended to normalized.
Shape1(entry) ==
    LET st == Get(entry, CatKey.screw_type, Str(<<>>)) IN
    IF st.tag # "str" THEN [err |-> TRUE, out |-> <<>>]
    ELSE IF ~IsSubstr(CatText.stud_price, LowerStr(st.v)) THEN [err |-> FALSE, out |-> <<entry>>]
    ELSE LET e1 == Put(entry, CatKey.screw_type, Str(CatText.Stud_Screw))
             m == IF HasKey(e1, CatKey.dimensions_in_metric)
                  THEN CleanRows(Get(e1, CatKey.dimensions_in_metric, NoneVal), CatKey.length_mm)
                  ELSE [err |-> FALSE, rows |-> <<>>]
             e2 == IF HasKey(e1, CatKey.dimensions_in_metric) /\ ~m.err
                   THEN Put(e1, CatKey.dimensions_in_metric, List(m.rows)) ELSE e1
             n == IF HasKey(e1, CatKey.dimensions_in_inches)
                  THEN CleanRows(Get(e1, CatKey.dimensions_in_inches, NoneVal), CatKey.length)
                  ELSE [err |-> FALSE, rows |-> <<>>]
             e3 == IF HasKey(e1, CatKey.dimensions_in_inches) /\ ~n.err
                   THEN Put(e2, CatKey.dimensions_in_inches, List(n.rows)) ELSE e2
         IN  IF m.err \/ n.err THEN [err |-> TRUE, out |-> <<>>]
             ELSE [err |-> FALSE, out |-> <<e3>>]

\* Case 2, lines 44-53: the rows built from data; a data row gives its length
\* and the items whose key starts with diameter_, the key cleaned
FlatRows(data, lenKey) ==
    LET ok == /\ CanIter(data)
              /\ \A i \in 1..Len(Iter(data)) : Iter(data)[i].tag = "dict"
    IN  IF ~ok THEN [err |-> TRUE, rows |-> <<>>]
        ELSE [err |-> FALSE,
              rows |-> [i \in 1..Len(data.v) |->
                  LET d == data.v[i].v
                      dias == SelectSeq(d, LAMBDA it : StartsWith(it[1], CatText.diameter_))
                  IN  Dict(<< <<lenKey, Get(d, lenKey, NoneVal)>>,
                              <<CatKey.diameter,
                                Dict(DictOf([j \in 1..Len(dias) |->
                                                <<CleanKey(lenKey, Replace(dias[j][1], CatText.diameter_, <<>>)),
                                                  dias[j][2]>>], <<>>))>> >>)]]

NewEntry(screw_type, unit, metric, inches) ==
    << <<CatKey.screw_type, screw_type>>, <<CatKey.standard, Str(CatText.NA)>>, <<CatKey.unit, unit>>,
       <<CatKey.dimensions_in_metric, List(metric)>>, <<CatKey.dimensions_in_inches, List(inches)>> >>

\* Case 2, lines 37-54
Shape2(entry) ==
    LET title == Get(entry, CatKey.title, NoneVal)
        du == Get(entry, CatKey.dimensions_unit, Str(<<>>))
        unit == Get(entry, CatKey.approx_count_unit, Str(CatText.NA))
    IN  IF du.tag # "str" \/ title.tag # "str" THEN [err |-> TRUE, out |-> <<>>]
        ELSE LET dim_unit == LowerStr(du.v)
                 screw_type == IF IsSubstr(CatText.stud, LowerStr(title.v))
                               THEN Str(CatText.Stud_Screw) ELSE title
                 data == Get(entry, CatKey.data, List(<<>>))
                 inch == IF StartsWith(dim_unit, CatText.inch)
                         THEN FlatRows(data, CatKey.length)
                         ELSE [err |-> FALSE, rows |-> <<>>]
                 metric == IF ~StartsWith(dim_unit, CatText.inch) /\ StartsWith(dim_unit, CatText.metric)
                           THEN FlatRows(data, CatKey.length_mm)
                           ELSE [err |-> FALSE, rows |-> <<>>]
             IN  IF inch.err \/ metric.err THEN [err |-> TRUE, out |-> <<>>]
                 ELSE [err |-> FALSE,
                       out |-> <<NewEntry(screw_type, unit, metric.rows, inch.rows)>>]

\* looks_like_inches, lines 60-62
looks_like_inches(size) ==
    LET s == TextOf(size) IN
    \/ IsSubstr(<<"\"">>, s) \/ IsSubstr(<<"/">>, s) \/ IsSubstr(<<"b","a">>, LowerStr(s))

\* the row lines 70 and 80 and 93 append: {"length_mm": None, "diameter": {size: val}}
\* (a size of None is kept as the key text None)
SizeRow(size, val) ==
    Dict(<< <<CatKey.length_mm, NoneVal>>, <<CatKey.diameter, Dict(<< <<TextOf(size), val>> >>)>> >>)

\* a data list of Case 3 or Case 4 can be walked: it is iterable, its
\* elements are dicts, their size can be a dict key
DataListOk(data_list) ==
    /\ CanIter(data_list)
    /\ \A i \in 1..Len(Iter(data_list)) :
          /\ Iter(data_list)[i].tag = "dict"
          /\ Get(Iter(data_list)[i].v, CatKey.size, NoneVal).tag \in {"str", "num", "none"}

\* lines 67-70: the value of a count row
CountVal(d) ==
    OrVal(Get(d, CatKey.specification, NoneVal),
          OrVal(Get(d, CatKey.height_d, NoneVal), Get(d, CatKey.count, NoneVal)))

\* lines 77-80: the value of a weight row
WeightVal(d) == OrVal(Get(d, CatKey.weight, NoneVal), Get(d, CatKey.count, NoneVal))

\* lines 64-72 and 74-82: one entry per item of the nested map
ExplodeNuts(nested, screw_type, unit) ==
    IF nested.tag # "dict" \/ \E i \in 1..Len(nested.v) : ~DataListOk(nested.v[i][2])
    THEN [err |-> TRUE, out |-> <<>>]
    ELSE [err |-> FALSE,
          out |-> [i \in 1..Len(nested.v) |->
              LET rows == nested.v[i][2].v
                  inch == SelectSeq(rows,
                              LAMBDA d : looks_like_inches(Get(d.v, CatKey.size, NoneVal)))
                  metric == SelectSeq(rows,
                              LAMBDA d : ~looks_like_inches(Get(d.v, CatKey.size, NoneVal)))
                  Row(d) == SizeRow(Get(d.v, CatKey.size, NoneVal),
                                  IF unit = CatText.count_unit THEN CountVal(d.v)
                                  ELSE WeightVal(d.v))
              IN  NewEntry(Str(TextOf(screw_type) \o <<" ","-"," ">> \o nested.v[i][1]), Str(unit),
                           [j \in 1..Len(metric) |-> Row(metric[j])],
                           [j \in 1..Len(inch) |-> Row(inch[j])])]]

\* Case 3, lines 57-82
Shape3(entry) ==
    LET screw_type == Get(entry, CatKey.title, Str(CatText.Nut))
        a == IF HasKey(entry, CatKey.approx_count_per_50_kgs)
             THEN ExplodeNuts(Get(entry, CatKey.approx_count_per_50_kgs, NoneVal), screw_type,
                              CatText.count_unit)
             ELSE [err |-> FALSE, out |-> <<>>]
        b == IF HasKey(entry, CatKey.hex_locknuts)
             THEN ExplodeNuts(Get(entry, CatKey.hex_locknuts, NoneVal), screw_type,
                              CatText.weight_unit)
             ELSE [err |-> FALSE, out |-> <<>>]
    IN  IF screw_type.tag \notin {"str", "num", "none"} \/ a.err \/ b.err
        THEN [err |-> TRUE, out |-> <<>>]
        ELSE [err |-> FALSE, out |-> a.out \o b.out]

\* Case 4 with the entries in reverse key order
Shape4Reversed(entry) ==
    LET subs == SelectSeq(entry, LAMBDA it : it[1] # CatKey.title /\ it[1] # CatKey.unit) IN
    IF \E i \in 1..Len(subs) : ~DataListOk(subs[i][2]) THEN [err |-> TRUE, out |-> <<>>]
    ELSE [err |-> FALSE,
          out |-> [i \in 1..Len(subs) |->
              NewEntry(Str(subs[Len(subs) + 1 - i][1]), Get(entry, CatKey.unit, Str(CatText.NA)),
                       <<>>, <<>>)]]

\* Case 4, lines 85-95: one entry per key other than title and unit
Shape4(entry) ==
    LET subs == SelectSeq(entry, LAMBDA it : it[1] # CatKey.title /\ it[1] # CatKey.unit) IN
    IF \E i \in 1..Len(subs) : ~DataListOk(subs[i][2]) THEN [err |-> TRUE, out |-> <<>>]
    ELSE [err |-> FALSE,
          out |-> [i \in 1..Len(subs) |->
              NewEntry(Str(subs[i][1]), Get(entry, CatKey.unit, Str(CatText.NA)),
                       [j \in 1..Len(subs[i][2].v) |->
                           SizeRow(Get(subs[i][2].v[j].v, CatKey.size, NoneVal),
                                   Get(subs[i][2].v[j].v, CatKey.weight, NoneVal))],
                       <<>>)]]

\* the if / elif chain of lines 16, 37, 57, 85: the case that handles a
\* record, 0 when none does
ShapeOfCountFirst(entry) ==
    IF HasKey(entry, CatKey.screw_type) THEN 1
    ELSE IF HasKey(entry, CatKey.approx_count_per_50_kgs) \/ HasKey(entry, CatKey.hex_locknuts) THEN 3
    ELSE IF HasKey(entry, CatKey.title)
            /\ (HasKey(entry, CatKey.dimensions_unit) \/ HasKey(entry, CatKey.data)) THEN 2
    ELSE IF HasKey(entry, CatKey.title) /\ HasKey(entry, CatKey.unit) THEN 4
    ELSE 0

ShapeOf(entry) ==
    IF HasKey(entry, CatKey.screw_type) THEN 1
    ELSE IF HasKey(entry, CatKey.title)
            /\ (HasKey(entry, CatKey.dimensions_unit) \/ HasKey(entry, CatKey.data)) THEN 2
    ELSE IF HasKey(entry, CatKey.approx_count_per_50_kgs) \/ HasKey(entry, CatKey.hex_locknuts) THEN 3
    ELSE IF HasKey(entry, CatKey.title) /\ HasKey(entry, CatKey.unit) THEN 4
    ELSE 0

\* the body of the for loop of line 14 for one record
Transform(entry) ==
    CASE ShapeOf(entry) = 1 -> Shape1(entry)
      [] ShapeOf(entry) = 2 -> Shape2(entry)
      [] ShapeOf(entry) = 3 -> Shape3(entry)
      [] ShapeOf(entry) = 4 -> Shape4(entry)
      [] OTHER -> [err |-> FALSE, out |-> <<>>]

\* Raw records: one or more of each shape, records that pass several tests,
\* a record that passes none, and a title + unit record that also carries a
\* text value (standard).  Every record is a JSON object.
Rec ==
    [Stud |->
         << <<<<"s","c","r","e","w","_","t","y","p","e">>, Str(<<"S","t","u","d"," ","P","r","i","c","e"," ","X","Y","Z">>)>>,
            <<<<"d","i","m","e","n","s","i","o","n","s","_","i","n","_","m","e","t","r","i","c">>, List(<<Dict(<< <<<<"l","e","n","g","t","h","_","m","m">>, Num(5)>>, <<<<"d","i","a","m","e","t","e","r">>, Dict(<< <<<<"M"," ","1","0">>, Num(2)>> >>)>> >>)>>)>>,
            <<<<"d","i","m","e","n","s","i","o","n","s","_","i","n","_","i","n","c","h","e","s">>, List(<<Dict(<< <<<<"l","e","n","g","t","h">>, Num(1)>>, <<<<"d","i","a","m","e","t","e","r">>, Dict(<< <<<<" ","1","/","2"," ">>, Num(3)>> >>)>> >>)>>)>> >>,

     HexBolt |->
         << <<<<"s","c","r","e","w","_","t","y","p","e">>, Str(<<"H","e","x"," ","B","o","l","t">>)>>,
            <<<<"d","i","m","e","n","s","i","o","n","s","_","i","n","_","m","e","t","r","i","c">>, List(<<Dict(<< <<<<"l","e","n","g","t","h","_","m","m">>, Num(5)>>, <<<<"d","i","a","m","e","t","e","r">>, Dict(<< <<<<"M"," ","1","0">>, Num(2)>> >>)>> >>)>>)>>,
            <<<<"d","i","m","e","n","s","i","o","n","s","_","i","n","_","i","n","c","h","e","s">>, List(<<Dict(<< <<<<"l","e","n","g","t","h">>, Num(1)>>, <<<<"d","i","a","m","e","t","e","r">>, Dict(<< <<<<" ","1","/","2"," ">>, Num(3)>> >>)>> >>)>>)>> >>,

     Rivet |->
         << <<<<"t","i","t","l","e">>, Str(<<"R","i","v","e","t">>)>>,
            <<<<"d","i","m","e","n","s","i","o","n","s","_","u","n","i","t">>, Str(<<"M","e","t","r","i","c">>)>>,
            <<<<"a","p","p","r","o","x","_","c","o","u","n","t","_","u","n","i","t">>, Str(<<"K","g"," ","p","e","r"," ","1","0","0"," ","N","o","s">>)>>,
            <<<<"d","a","t","a">>, List(<<Dict(<< <<<<"l","e","n","g","t","h","_","m","m">>, Num(5)>>, <<<<"d","i","a","m","e","t","e","r","_","M"," ","1","0">>, Num(4)>> >>)>>)>> >>,

     FlatWithCounts |->
         << <<<<"t","i","t","l","e">>, Str(<<"L","o","c","k">>)>>,
            <<<<"d","a","t","a">>, List(<<>>)>>,
            <<<<"a","p","p","r","o","x","_","c","o","u","n","t","_","p","e","r","_","5","0","_","k","g","s">>, Dict(<< <<<<"h","e","x">>, List(<<Dict(<< <<<<"s","i","z","e">>, Str(<<"M","3">>)>>, <<<<"c","o","u","n","t">>, Num(5)>> >>)>>)>>, <<<<"s","q">>, List(<<>>)>> >>)>> >>,

     Nuts |->
         << <<<<"t","i","t","l","e">>, Str(<<"N","u","t">>)>>,
            <<<<"a","p","p","r","o","x","_","c","o","u","n","t","_","p","e","r","_","5","0","_","k","g","s">>, Dict(<< <<<<"h","e","x">>, List(<<Dict(<< <<<<"s","i","z","e">>, Str(<<"M","3">>)>>, <<<<"c","o","u","n","t">>, Num(5)>> >>), Dict(<< <<<<"s","i","z","e">>, Str(<<"1","/","4">>)>>, <<<<"h","e","i","g","h","t","_","d">>, Num(7)>> >>)>>)>>, <<<<"s","q">>, List(<<>>)>> >>)>>,
            <<<<"h","e","x","_","l","o","c","k","n","u","t","s","_","b","s","w","_","b","s","f","_","a","p","p","r","o","x","_","w","e","i","g","h","t","_","p","e","r","_","1","0","0","_","p","c","s">>, Dict(<< <<<<"b","s","w">>, List(<<Dict(<< <<<<"s","i","z","e">>, Str(<<"2","B","A">>)>>, <<<<"w","e","i","g","h","t">>, Num(6)>> >>)>>)>> >>)>> >>,

     NutsWithUnit |->
         << <<<<"t","i","t","l","e">>, Str(<<"N","u","t">>)>>,
            <<<<"u","n","i","t">>, Str(<<"k","g">>)>>,
            <<<<"a","p","p","r","o","x","_","c","o","u","n","t","_","p","e","r","_","5","0","_","k","g","s">>, Dict(<< <<<<"h","e","x">>, List(<<Dict(<< <<<<"s","i","z","e">>, Str(<<"M","3">>)>>, <<<<"c","o","u","n","t">>, Num(5)>> >>)>>)>> >>)>> >>,

     Washers |->
         << <<<<"t","i","t","l","e">>, Str(<<"W","a","s","h","e","r","s">>)>>,
            <<<<"u","n","i","t">>, Str(<<"k","g">>)>>,
            <<<<"p","l","a","i","n">>, List(<<Dict(<< <<<<"s","i","z","e">>, Str(<<"M","6">>)>>, <<<<"w","e","i","g","h","t">>, Num(1)>> >>)>>)>>,
            <<<<"s","p","r","i","n","g">>, List(<<Dict(<< <<<<"s","i","z","e">>, Str(<<"M","8">>)>>, <<<<"w","e","i","g","h","t">>, Num(2)>> >>), Dict(<< <<<<"w","e","i","g","h","t">>, Num(3)>> >>)>>)>> >>,

     WashersWithStandard |->
         << <<<<"t","i","t","l","e">>, Str(<<"W","a","s","h","e","r","s">>)>>,
            <<<<"u","n","i","t">>, Str(<<"k","g">>)>>,
            <<<<"s","t","a","n","d","a","r","d">>, Str(<<"D","I","N"," ","1","2","5">>)>>,
            <<<<"p","l","a","i","n">>, List(<<Dict(<< <<<<"s","i","z","e">>, Str(<<"M","6">>)>>, <<<<"w","e","i","g","h","t">>, Num(1)>> >>)>>)>> >>,

     TypedWashers |->
         << <<<<"s","c","r","e","w","_","t","y","p","e">>, Str(<<"W","a","s","h","e","r">>)>>,
            <<<<"t","i","t","l","e">>, Str(<<"W","a","s","h","e","r","s">>)>>,
            <<<<"u","n","i","t">>, Str(<<"k","g">>)>>,
            <<<<"p","l","a","i","n">>, List(<<>>)>> >>,

     Unknown |->
         << <<<<"n","a","m","e">>, Str(<<"m","i","s","c">>)>>,
            <<<<"u","n","i","t">>, Str(<<"k","g">>)>> >>]
CatPool == {Rec[n] : n \in DOMAIN Rec}
MaxRecords == 2

CatIdle == catRaw = <<>> /\ catPos = 0 /\ catOut = <<>> /\ catLog = <<>> /\ catPc = "off"
CatInit ==
    /\ catRaw \in SeqsUpTo(CatPool, MaxRecords)
    /\ catPos = 1 /\ catOut = <<>> /\ catLog = <<>> /\ catPc = "loop"

\* one iteration of the loop of line 14; an exception leaves load_catalogue
NormalizeRecord ==
    /\ catPc = "loop" /\ catPos <= Len(catRaw)
    /\ \E r \in {Transform(catRaw[catPos])} :
          IF r.err
          THEN /\ catPc' = "raised"
               /\ UNCHANGED <<catPos, catOut, catLog>>
          ELSE /\ catOut' = catOut \o r.out
               /\ catLog' = Append(catLog, [shape |-> ShapeOf(catRaw[catPos]),
                                            count |-> Len(r.out)])
               /\ catPos' = catPos + 1
               /\ catPc' = "loop"
    /\ UNCHANGED <<catRaw, FirstVars, casVars, dinVars, nmVars, synVars, duVars, grVars, famVars>>

\* line 96: return normalized
ReturnNormalized ==
    /\ catPc = "loop" /\ catPos > Len(catRaw)
    /\ catPc' = "returned"
    /\ UNCHANGED <<catRaw, catPos, catOut, catLog, FirstVars, casVars, dinVars, nmVars, synVars, duVars, grVars, famVars>>

-----------------------------------------------------------------------------
(* The dimension-standard filter cascade (src/app3.py, lines 954-1074) *)

CasText ==
    [families |-> <<<<"D","I","N">>, <<"I","S","O">>, <<"A","S","T","M">>, <<"A","S","M","E">>, <<"A","N","S","I">>, <<"B","S">>>>,
     other |-> <<"O","T","H","E","R">>, INCH |-> <<"I","N","C","H">>, metric |-> <<"m","e","t","r","i","c">>, inch |-> <<"i","n","c","h">>,
     HEX_BOLT |-> <<"H","E","X"," ","B","O","L","T">>, NUT |-> <<"N","U","T">>, T_BOLT |-> <<"T","-","B","O","L","T">>]

\* r"^[A-Z]+": the leading run of capital letters
RECURSIVE LeadingUpper(_)
LeadingUpper(s) ==
    IF s = <<>> \/ ~IsUpper(Head(s)) THEN <<>> ELSE <<Head(s)>> \o LeadingUpper(Tail(s))

\* standard_family_of, lines 469-482
standard_family_of(standard_str) ==
    IF standard_str = <<>> THEN <<>>
    ELSE LET s == Strip(UpperStr(standard_str))
             hits == {k \in 1..Len(CasText.families) :
                         \/ StartsWith(s, CasText.families[k])
                         \/ WordBoundarySearch(CasText.families[k], s)}
         IN  IF hits # {} THEN CasText.families[CHOOSE k \in hits : \A j \in hits : k <= j]
             ELSE IF LeadingUpper(s) # <<>> THEN LeadingUpper(s)
             ELSE CasText.other

\* re.split(r'[;,]', s)
RECURSIVE SplitList(_, _, _)
SplitList(s, cur, acc) ==
    IF s = <<>> THEN Append(acc, cur)
    ELSE IF Head(s) \in {";", ","} THEN SplitList(Tail(s), <<>>, Append(acc, cur))
    ELSE SplitList(Tail(s), Append(cur, Head(s)), acc)

\* [p.strip() for p in re.split(r'[;,]', s) if p.strip()]
SplitParts(s) ==
    LET ps == SplitList(s, <<>>, <<>>)
        stripped == [k \in 1..Len(ps) |-> Strip(ps[k])]
    IN  SelectSeq(stripped, LAMBDA p : p # <<>>)

\* ", ".join(xs)
RECURSIVE JoinComma(_)
JoinComma(xs) ==
    IF xs = <<>> THEN <<>>
    ELSE IF Len(xs) = 1 THEN xs[1]
    ELSE xs[1] \o <<",", " ">> \o JoinComma(Tail(xs))

\* metrics_raw of an item, lines 967-969: the text, or the non-empty elements
\* of the list stripped and joined
MetricsRaw(it) ==
    IF it.metrics.tag = "list"
    THEN JoinComma([k \in 1..Len(SelectSeq(it.metrics.v, TruthyVal)) |->
                       Strip(TextOf(SelectSeq(it.metrics.v, TruthyVal)[k]))])
    ELSE it.metrics.v

InList(x, xs) == \E k \in 1..Len(xs) : xs[k] = x

\* for p in xs: if p not in dim_opts: dim_opts.append(p)
RECURSIVE AddNew(_, _)
AddNew(opts, xs) ==
    IF xs = <<>> THEN opts
    ELSE AddNew(IF InList(Head(xs), opts) THEN opts ELSE Append(opts, Head(xs)), Tail(xs))

\* the unit filter of pass 1, lines 981-1009
UnitFilter(opts, std_raw, metrics_raw, inches_raw, unit) ==
    IF unit = CasText.metric
    THEN IF metrics_raw # <<>> THEN AddNew(opts, SplitParts(metrics_raw))
         ELSE IF std_raw # <<>>
                 /\ (\/ WordBoundarySearch(CasText.families[1], std_raw)
                     \/ WordBoundarySearch(CasText.families[2], std_raw)
                     \/ \E k \in 1..Len(std_raw) : IsDigit(std_raw[k]))
         THEN AddNew(opts, <<std_raw>>) ELSE opts
    ELSE IF unit = CasText.inch
    THEN IF inches_raw # <<>> THEN AddNew(opts, <<inches_raw>>)
         ELSE IF std_raw # <<>>
                 /\ (\/ IsSubstr(CasText.INCH, UpperStr(std_raw))
                     \/ \E k \in 1..Len(std_raw) : std_raw[k] \in {"'", "\""})
         THEN AddNew(opts, <<std_raw>>) ELSE opts
    ELSE IF metrics_raw # <<>> THEN AddNew(opts, SplitParts(metrics_raw))
    ELSE IF std_raw # <<>> THEN AddNew(opts, <<std_raw>>)
    ELSE opts

\* the family of an item: standard_family_of(std_raw) or standard_family_of(metrics_raw)
FamilyOfItem(it) ==
    IF standard_family_of(Strip(it.standard)) # <<>> THEN standard_family_of(Strip(it.standard))
    ELSE standard_family_of(MetricsRaw(it))

\* pass 1 for one item, lines 961-1011
Pass1Item(opts, it, inp) ==
    IF it.type_name = <<>> THEN opts
    ELSE IF inp.sel # <<>> /\ Strip(it.type_name) # Strip(inp.sel) THEN opts
    ELSE LET std_raw == Strip(it.standard)
             mismatch == inp.family # <<>> /\ FamilyOfItem(it) # inp.family
             numbered == std_raw # <<>> /\ IsDigit(std_raw[1]) /\ MetricsRaw(it) = <<>>
         IN  IF mismatch /\ ~numbered THEN opts
             ELSE UnitFilter(IF mismatch THEN Append(opts, inp.family \o <<" ">> \o std_raw)
                             ELSE opts,
                             std_raw, MetricsRaw(it), Strip(it.inches), inp.unit)

\* pass 2 for one item, lines 1017-1036
Pass2Item(opts, it, inp) ==
    IF FamilyOfItem(it) # inp.family THEN opts
    ELSE IF inp.unit = CasText.metric
    THEN IF MetricsRaw(it) # <<>> /\ ~InList(MetricsRaw(it), opts)
         THEN AddNew(opts, SplitParts(MetricsRaw(it))) ELSE opts
    ELSE IF inp.unit = CasText.inch
    THEN IF Strip(it.inches) # <<>> THEN AddNew(opts, <<Strip(it.inches)>>) ELSE opts
    ELSE LET cand == IF MetricsRaw(it) # <<>> THEN MetricsRaw(it)
                     ELSE IF Strip(it.standard) # <<>> THEN Strip(it.standard)
                     ELSE Strip(it.inches)
         IN  IF cand # <<>> THEN AddNew(opts, <<cand>>) ELSE opts

\* pass 3 for one item, lines 1043-1063
Pass3Item(opts, it, inp) ==
    IF inp.unit = CasText.metric /\ MetricsRaw(it) # <<>>
    THEN AddNew(opts, SplitParts(MetricsRaw(it)))
    ELSE IF inp.unit = CasText.inch /\ Strip(it.inches) # <<>>
    THEN AddNew(opts, <<Strip(it.inches)>>)
    ELSE AddNew(opts, SelectSeq(<<MetricsRaw(it), Strip(it.standard), Strip(it.inches)>>,
                                LAMBDA c : c # <<>>))

\* the loops over the items of the index for pass k
RECURSIVE CascadePass(_, _, _, _)
CascadePass(k, items, opts, inp) ==
    IF items = <<>> THEN opts
    ELSE CascadePass(k, Tail(items),
                     CASE k = 1 -> Pass1Item(opts, Head(items), inp)
                       [] k = 2 -> Pass2Item(opts, Head(items), inp)
                       [] k = 3 -> Pass3Item(opts, Head(items), inp),
                     inp)

\* the guard of pass 2, line 1014: nothing found and a family is selected
RunsPass2IfFamily(opts, family) == family # <<>>

RunsPass2(opts, family) == opts = <<>> /\ family # <<>>

\* the guard of pass 3, line 1039: nothing found
RunsPass3(opts) == opts = <<>>

\* dim_list, lines 1066-1074: the non-empty labels stripped, first occurrences only
RECURSIVE DimList(_, _)
DimList(opts, acc) ==
    IF opts = <<>> THEN acc
    ELSE DimList(Tail(opts),
                 IF Head(opts) = <<>> \/ InList(Strip(Head(opts)), acc) THEN acc
                 ELSE Append(acc, Strip(Head(opts))))

\* items of the standards index, with the fields the cascade reads: type_name
\* and standard as build_din_index writes them (lines 222-223), metrics a text
\* or a list (line 225), inches given by its text (line 224)
CasItem ==
    [Bolt933 |-> [type_name |-> CasText.HEX_BOLT, standard |-> <<"D","I","N"," ","9","3","3">>,
                  metrics |-> Str(<<"I","S","O"," ","4","0","1","7",","," ","I","S","O"," ","4","0","1","4">>), inches |-> <<>>],
     Bolt931 |-> [type_name |-> CasText.HEX_BOLT, standard |-> <<"9","3","1">>,
                  metrics |-> Str(<<>>), inches |-> <<"1","/","2"," ","I","N">>],
     Nut934  |-> [type_name |-> CasText.NUT, standard |-> <<"D","I","N"," ","9","3","4">>,
                  metrics |-> List(<<Str(<<"I","S","O"," ","4","0","3","2">>)>>), inches |-> <<>>],
     NutB18  |-> [type_name |-> CasText.NUT, standard |-> <<"A","S","M","E"," ","B","1","8">>,
                  metrics |-> Str(<<>>), inches |-> <<"1","/","4"," ","I","N","C","H">>]]

MaxItems == 2

CasIndexes == UNION {[1..n -> {CasItem[f] : f \in DOMAIN CasItem}] : n \in 0..MaxItems}

CasInputs ==
    [items : CasIndexes,
     sel : {<<>>, CasText.HEX_BOLT, CasText.NUT, CasText.T_BOLT},
     family : {<<>>, CasText.families[1], CasText.families[2], CasText.families[4]},
     unit : {<<>>, CasText.metric, CasText.inch}]

CasIdle ==
    /\ casIn = [items |-> <<>>, sel |-> <<>>, family |-> <<>>, unit |-> <<>>]
    /\ casOpts = <<>>
    /\ casRan = <<>>
    /\ casPc = "off"
    /\ casList = <<>>

\* lines 954-957: dim_opts = [] and the current selection read from the session
CasInit ==
    /\ casIn \in CasInputs
    /\ casOpts = <<>>
    /\ casRan = <<>>
    /\ casPc = "pass1"
    /\ casList = <<>>

\* lines 959-1011
CascadePass1 ==
    /\ casPc = "pass1"
    /\ \E out \in {CascadePass(1, casIn.items, casOpts, casIn)} :
          /\ casOpts' = out
          /\ casRan' = Append(casRan, [pass |-> 1, out |-> out])
    /\ casPc' = "pass2"
    /\ UNCHANGED <<casIn, casList, FirstVars, catVars, dinVars, nmVars, synVars, duVars, grVars, famVars>>

\* lines 1014-1036
CascadePass2 ==
    /\ casPc = "pass2"
    /\ IF RunsPass2(casOpts, casIn.family)
       THEN \E out \in {CascadePass(2, casIn.items, casOpts, casIn)} :
               /\ casOpts' = out
               /\ casRan' = Append(casRan, [pass |-> 2, out |-> out])
       ELSE UNCHANGED <<casOpts, casRan>>
    /\ casPc' = "pass3"
    /\ UNCHANGED <<casIn, casList, FirstVars, catVars, dinVars, nmVars, synVars, duVars, grVars, famVars>>

\* lines 1039-1063
CascadePass3 ==
    /\ casPc = "pass3"
    /\ IF RunsPass3(casOpts)
       THEN \E out \in {CascadePass(3, casIn.items, casOpts, casIn)} :
               /\ casOpts' = out
               /\ casRan' = Append(casRan, [pass |-> 3, out |-> out])
       ELSE UNCHANGED <<casOpts, casRan>>
    /\ casPc' = "dedupe"
    /\ UNCHANGED <<casIn, casList, FirstVars, catVars, dinVars, nmVars, synVars, duVars, grVars, famVars>>

\* lines 1066-1074
CascadeDedupe ==
    /\ casPc = "dedupe"
    /\ casList' = DimList(casOpts, <<>>)
    /\ casPc' = "done"
    /\ UNCHANGED <<casIn, casOpts, casRan, FirstVars, catVars, dinVars, nmVars, synVars, duVars, grVars, famVars>>

-----------------------------------------------------------------------------
(* build_din_index (src/app3.py, lines 179-298) and parse_grades_field *)
(* (lines 50-72)                                                       *)

\* the texts build_din_index looks for
DinKey ==
    [finish |-> <<"f","i","n","i","s","h">>, type_suffix |-> <<" ","t","y","p","e">>, Type |-> <<"T","y","p","e">>,
     Bolt_Type |-> <<"B","o","l","t"," ","T","y","p","e">>, Nut_Type |-> <<"N","u","t"," ","T","y","p","e">>, name |-> <<"n","a","m","e">>,
     Standard |-> <<"S","t","a","n","d","a","r","d">>, standard |-> <<"s","t","a","n","d","a","r","d">>,
     Inches |-> <<"I","n","c","h","e","s">>, inches |-> <<"i","n","c","h","e","s">>,
     Metrics |-> <<"M","e","t","r","i","c","s">>, metrics |-> <<"m","e","t","r","i","c","s">>,
     Grades |-> <<"G","r","a","d","e","s">>, grades |-> <<"g","r","a","d","e","s">>, unknown |-> <<"u","n","k","n","o","w","n">>,
     guesses |-> <<<<"w","a","s","h","e","r">>, <<"b","o","l","t">>, <<"n","u","t">>, <<"s","t","u","d">>, <<"s","c","r","e","w">>>>]

\* s.endswith(p), s.rstrip('s'), s.split()[0]
EndsWith(s, p) == Len(p) <= Len(s) /\ SubSeq(s, Len(s) - Len(p) + 1, Len(s)) = p

RECURSIVE RStripS(_)
RStripS(s) ==
    IF s # <<>> /\ s[Len(s)] = "s" THEN RStripS(SubSeq(s, 1, Len(s) - 1)) ELSE s

RECURSIVE FirstWord(_)
FirstWord(s) ==
    IF s = <<>> \/ Head(s) = " " THEN <<>> ELSE <<Head(s)>> \o FirstWord(Tail(s))

\* entry.get(k1) or entry.get(k2) or ... or default
RECURSIVE GetOr(_, _, _)
GetOr(items, keys, default) ==
    IF keys = <<>> THEN default
    ELSE OrVal(Get(items, Head(keys), NoneVal), GetOr(items, Tail(keys), default))

\* parse_grades_field, lines 50-72
parse_grades_field(g) ==
    CASE g.tag = "list" ->
            Concat([k \in 1..Len(g.v) |->
                      CASE g.v[k].tag = "none" -> <<>>
                        [] g.v[k].tag = "num" -> <<TextOf(g.v[k])>>
                        [] g.v[k].tag = "str" -> SplitParts(g.v[k].v)
                        [] OTHER -> <<Strip(TextOf(g.v[k]))>>])
      [] g.tag = "num" -> <<TextOf(g)>>
      [] g.tag = "str" -> SplitParts(g.v)
      [] OTHER -> <<>>

\* type_key, lines 202-206: the position of the first key that ends with " type"
\* once stripped and lower-cased, 0 when there is none
TypeKeyOf(entry) ==
    LET hits == {i \in 1..Len(entry) :
                    EndsWith(LowerStr(Strip(entry[i][1])), DinKey.type_suffix)}
    IN  IF hits = {} THEN 0 ELSE CHOOSE i \in hits : \A j \in hits : i <= j

\* entry_finishes, lines 212-220: the tokens of the fields whose key contains "finish"
EntryFinishes(entry) ==
    Concat([i \in 1..Len(entry) |->
              IF ~IsSubstr(DinKey.finish, LowerStr(entry[i][1])) THEN <<>>
              ELSE IF entry[i][2].tag = "list"
              THEN [k \in 1..Len(SelectSeq(entry[i][2].v, TruthyVal)) |->
                      Strip(TextOf(SelectSeq(entry[i][2].v, TruthyVal)[k]))]
              ELSE IF entry[i][2].tag = "str" THEN SplitParts(entry[i][2].v)
              ELSE <<>>])

\* add_item and the lines after it (207-232): the item of an entry joins its
\* category and the upper-cased non-empty finishes of the entry join global_finishes
DinEntry(st, category_key, entry, metrics) ==
    LET type_name == IF TypeKeyOf(entry) # 0 THEN entry[TypeKeyOf(entry)][2]
                     ELSE GetOr(entry, <<DinKey.Type, DinKey.Bolt_Type, DinKey.Nut_Type,
                                         DinKey.name>>, Str(<<>>))
        item == [type_name |-> Strip(TextOf(type_name)),
                 standard |-> Strip(TextOf(GetOr(entry, <<DinKey.Standard, DinKey.standard>>,
                                                 Str(<<>>)))),
                 inches |-> GetOr(entry, <<DinKey.Inches, DinKey.inches>>, Str(<<>>)),
                 metrics |-> metrics,
                 grades |-> parse_grades_field(GetOr(entry, <<DinKey.Grades>>,
                                                     Get(entry, DinKey.grades, NoneVal))),
                 finishes |-> EntryFinishes(entry),
                 raw |-> entry]
        said == SelectSeq(EntryFinishes(entry), LAMBDA f : f # <<>>)
    IN  [categories |-> Put(st.categories, category_key,
                            Append(Get(st.categories, category_key, <<>>), item)),
         global_finishes |-> st.global_finishes \o [k \in 1..Len(said) |-> UpperStr(said[k])]]

\* line 189: a top-level key that names finishes and holds a list
IsFinishListNever(topk_lower, val) == FALSE

IsFinishList(topk_lower, val) == IsSubstr(DinKey.finish, topk_lower) /\ val.tag = "list"

\* lines 190-195: the strings of a top-level finish list and the elements of
\* its nested lists, stripped and upper-cased
TopFinishes(val) ==
    Concat([k \in 1..Len(val) |->
              IF val[k].tag = "str" THEN <<UpperStr(Strip(val[k].v))>>
              ELSE IF val[k].tag = "list"
              THEN [j \in 1..Len(val[k].v) |-> UpperStr(Strip(TextOf(val[k].v[j])))]
              ELSE <<>>])

\* lines 199-232: the entries of a category list, those that are not dicts skipped
RECURSIVE DinEntries(_, _, _)
DinEntries(st, category_key, entries) ==
    IF entries = <<>> THEN st
    ELSE DinEntries(IF Head(entries).tag # "dict" THEN st
                    ELSE DinEntry(st, category_key, Head(entries).v,
                                  GetOr(Head(entries).v, <<DinKey.Metrics, DinKey.metrics>>,
                                        Str(<<>>))),
                    category_key, Tail(entries))

\* lines 187-232: one top-level item of a mapping
DinTopLevel(st, topk, val) ==
    IF IsFinishList(LowerStr(Strip(topk)), val)
    THEN [st EXCEPT !.global_finishes = @ \o TopFinishes(val.v)]
    ELSE IF val.tag = "list" THEN DinEntries(st, RStripS(LowerStr(Strip(topk))), val.v)
    ELSE st

\* category_key of an entry of a flat list, lines 242-249
ListCategory(entry) ==
    IF TypeKeyOf(entry) # 0
    THEN LowerStr(FirstWord(Strip(entry[TypeKeyOf(entry)][1])))
    ELSE LET hits == {g \in 1..Len(DinKey.guesses) :
                         \E i \in 1..Len(entry) :
                            IsSubstr(DinKey.guesses[g], LowerStr(entry[i][1]))}
         IN  IF hits = {} THEN DinKey.unknown
             ELSE DinKey.guesses[CHOOSE g \in hits : \A h \in hits : g <= h]

\* metrics of an entry of a flat list, lines 255-265
ListMetrics(entry) ==
    LET raw_metrics == GetOr(entry, <<DinKey.Metrics, DinKey.metrics>>, List(<<>>))
        texts == IF raw_metrics.tag = "list"
                 THEN Concat([k \in 1..Len(raw_metrics.v) |->
                                IF raw_metrics.v[k].tag = "str"
                                THEN SplitParts(raw_metrics.v[k].v)
                                ELSE <<Strip(TextOf(raw_metrics.v[k]))>>])
                 ELSE SplitParts(TextOf(raw_metrics))
    IN  List([k \in 1..Len(texts) |-> Str(texts[k])])

\* lines 234-289: one entry of a flat list
DinListEntry(st, entry) ==
    IF entry.tag # "dict" THEN st
    ELSE DinEntry(st, ListCategory(entry.v), entry.v, ListMetrics(entry.v))

\* dedup_fin, lines 291-297
RECURSIVE DedupFin(_, _)
DedupFin(global_finishes, acc) ==
    IF global_finishes = <<>> THEN acc
    ELSE LET fu == Strip(UpperStr(Head(global_finishes)))
         IN  DedupFin(Tail(global_finishes),
                      IF fu # <<>> /\ ~InList(fu, acc) THEN Append(acc, fu) ELSE acc)

\* top-level items of a standards document that is a mapping
DinTop ==
    [Finishes |-> <<<<"F","i","n","i","s","h","e","s">>,
                    List(<<Str(<<"z","i","n","c"," ">>), Str(<<"H","D","G">>),
                           List(<<Str(<<"Z","i","n","c">>), Str(<<"b","l","a","c","k">>)>>),
                           Dict(<<<<<<"T","y","p","e">>, Str(<<"X">>)>>, <<<<"F","i","n","i","s","h">>, Str(<<"G","O","L","D">>)>>>>)>>)>>,
     Bolts |-> <<<<"B","o","l","t","s">>,
                 List(<<Dict(<<<<<<"B","o","l","t"," ","T","y","p","e">>, Str(<<"H","e","x"," ","B","o","l","t">>)>>,
                               <<<<"S","t","a","n","d","a","r","d">>, Str(<<"D","I","N"," ","9","3","3">>)>>,
                               <<<<"M","e","t","r","i","c","s">>, Str(<<"I","S","O"," ","4","0","1","7",","," ","I","S","O"," ","4","0","1","4">>)>>,
                               <<<<"F","i","n","i","s","h">>, Str(<<"H","d","g",";"," ","b","l","a","c","k">>)>>>>)>>)>>,
     Nuts |-> <<<<"N","u","t","s">>,
                List(<<Dict(<<<<<<"N","u","t"," ","T","y","p","e">>, Str(<<"H","e","x"," ","N","u","t">>)>>,
                              <<<<"F","i","n","i","s","h","e","s">>, List(<<Str(<<"B","L","A","C","K">>), Str(<<>>), Str(<<" ","z","i","n","c">>)>>)>>,
                              <<<<"G","r","a","d","e","s">>, Str(<<"8",","," ","1","0">>)>>>>),
                       Str(<<"n","o","t","e">>)>>)>>,
     Surface |-> <<<<"S","u","r","f","a","c","e"," ","F","i","n","i","s","h"," ">>, List(<<Str(<<"B","l","a","c","k">>)>>)>>,
     Note |-> <<<<"F","i","n","i","s","h"," ","N","o","t","e">>, Str(<<"p","l","a","i","n">>)>>,
     Brass |-> <<<<"B","r","a","s","s">>, List(<<Dict(<<<<<<"T","y","p","e">>, Str(<<"I","n","s","e","r","t">>)>>>>)>>)>>]

\* entries of a standards document that is a flat list
DinFlat ==
    <<DinTop.Bolts[2].v[1], DinTop.Nuts[2].v[1], Str(<<"n","o","t","e">>),
      Dict(<<<<<<"W","a","s","h","e","r"," ","S","i","z","e">>, Str(<<"M","8">>)>>,
             <<<<"m","e","t","r","i","c","s">>, List(<<Str(<<"M","8",";"," ","M","1","0">>), Num(6)>>)>>,
             <<<<"f","i","n","i","s","h">>, Str(<<"z","i","n","c">>)>>>>)>>

MaxTop == 3

\* the documents, each told by its kind and the names (or positions) of its
\* items: a mapping has no key twice
DinShapes ==
    UNION {{<<"dict", names>> : names \in {s \in [1..n -> DOMAIN DinTop] :
                                              \A a, b \in 1..n : a # b => s[a] # s[b]}}
           \cup {<<"list", ks>> : ks \in [1..n -> 1..Len(DinFlat)]}
           : n \in 0..MaxTop}

DinDocument(shape) ==
    IF shape[1] = "dict" THEN Dict([k \in 1..Len(shape[2]) |-> DinTop[shape[2][k]]])
    ELSE List([k \in 1..Len(shape[2]) |-> DinFlat[shape[2][k]]])

DinIdle ==
    /\ dinData = NoneVal
    /\ dinPos = 1
    /\ dinSt = [categories |-> <<>>, global_finishes |-> <<>>]
    /\ dinFin = <<>>
    /\ dinPc = "off"

\* lines 180-181
DinInit ==
    /\ \E shape \in DinShapes : dinData = DinDocument(shape)
    /\ dinPos = 1
    /\ dinSt = [categories |-> <<>>, global_finishes |-> <<>>]
    /\ dinFin = <<>>
    /\ dinPc = "loop"

\* one turn of the loop of line 187 (a mapping) or of line 234 (a flat list)
DinStep ==
    /\ dinPc = "loop"
    /\ dinPos <= Len(dinData.v)
    /\ dinSt' = IF dinData.tag = "dict"
                THEN DinTopLevel(dinSt, dinData.v[dinPos][1], dinData.v[dinPos][2])
                ELSE DinListEntry(dinSt, dinData.v[dinPos])
    /\ dinPos' = dinPos + 1
    /\ UNCHANGED <<dinData, dinFin, dinPc, FirstVars, catVars, casVars, nmVars, synVars, duVars, grVars, famVars>>

\* lines 291-298: the loop is over, the finishes are deduplicated and returned
DinReturn ==
    /\ dinPc = "loop"
    /\ dinPos > Len(dinData.v)
    /\ dinFin' = DedupFin(dinSt.global_finishes, <<>>)
    /\ dinPc' = "returned"
    /\ UNCHANGED <<dinData, dinPos, dinSt, FirstVars, catVars, casVars, nmVars, synVars, duVars, grVars, famVars>>

-----------------------------------------------------------------------------
(* normalize and normalized_token_in_text applied to given tokens and texts *)

MaxText == 3

\* the texts: every text of at most MaxText characters of a small alphabet,
\* and the documented ones
NmTexts ==
    SeqsUpTo({"M", "n", "1", "0", " ", "-"}, MaxText)
        \cup {<<"M"," ","1","0">>, <<"M","-","1","0">>, <<"P","E","A","N","U","T">>, <<"H","E","X"," ","N","U","T">>}

NmTokens == {<<>>, <<"-">>, <<"n">>, <<"M","1","0">>, <<"M"," ","1","0">>, <<"N","U","T">>}

NmIdle ==
    /\ nmIn = [token |-> <<>>, text |-> <<>>]
    /\ nmOut = [norm |-> <<>>, again |-> <<>>, hit |-> FALSE]
    /\ nmPc = "off"

NmInit ==
    /\ nmIn \in [token : NmTokens, text : NmTexts]
    /\ nmOut = [norm |-> <<>>, again |-> <<>>, hit |-> FALSE]
    /\ nmPc = "given"

\* normalize(text), lines 21-24
Normalize ==
    /\ nmPc = "given"
    /\ nmOut' = [nmOut EXCEPT !.norm = normalize(nmIn.text)]
    /\ nmPc' = "normalized"
    /\ UNCHANGED <<nmIn, FirstVars, catVars, casVars, dinVars, synVars, duVars, grVars, famVars>>

\* normalize applied to its own result
NormalizeAgain ==
    /\ nmPc = "normalized"
    /\ nmOut' = [nmOut EXCEPT !.again = normalize(nmOut.norm)]
    /\ nmPc' = "again"
    /\ UNCHANGED <<nmIn, FirstVars, catVars, casVars, dinVars, synVars, duVars, grVars, famVars>>

\* normalized_token_in_text(token, text), lines 31-48
TokenInText ==
    /\ nmPc = "given"
    /\ nmOut' = [nmOut EXCEPT !.hit = normalized_token_in_text(nmIn.token, nmIn.text)]
    /\ nmPc' = "matched"
    /\ UNCHANGED <<nmIn, FirstVars, catVars, casVars, dinVars, synVars, duVars, grVars, famVars>>

-----------------------------------------------------------------------------
(* find_all_synonym_matches (src/app3.py, lines 89-121) *)

SynText ==
    [CAPSCREW |-> <<"C","A","P","S","C","R","E","W">>, HEX_HD |-> <<"H","E","X"," ","H","D">>, HEXHD |-> <<"H","E","X","H","D">>,
     HEX_HEAD |-> <<"H","E","X"," ","H","E","A","D">>, ALLEN_CAP_SCREW |-> <<"A","L","L","E","N"," ","C","A","P"," ","S","C","R","E","W">>,
     HEX_BOLT |-> <<"H","E","X"," ","B","O","L","T">>, ALLEN_CAP |-> <<"A","L","L","E","N"," ","C","A","P">>, SOCKET_CAP |-> <<"S","O","C","K","E","T"," ","C","A","P">>,
     ALLEN |-> <<"A","L","L","E","N">>]

\* line 99: the description names a capscrew and a hex head
IsHexCapscrew(desc_up) ==
    /\ IsSubstr(SynText.CAPSCREW, desc_up)
    /\ \/ IsSubstr(SynText.HEX_HD, desc_up)
       \/ IsSubstr(SynText.HEXHD, desc_up)
       \/ IsSubstr(SynText.HEX_HEAD, desc_up)

\* line 104: the mains the special case reports
KeepSpecialAllenOnly(s, main) == UpperStr(main) = SynText.ALLEN_CAP_SCREW

KeepSpecial(s, main) == UpperStr(main) \in {SynText.ALLEN_CAP_SCREW, SynText.HEX_BOLT}

\* lines 115-118: a phrase about Allen or cap screws is reported under
\* ALLEN CAP SCREW only
KeepRegularAlways(s, main) == TRUE

KeepRegular(s, main) ==
    ~ /\ \/ IsSubstr(SynText.CAPSCREW, UpperStr(s))
         \/ IsSubstr(SynText.ALLEN_CAP, UpperStr(s))
         \/ IsSubstr(SynText.SOCKET_CAP, UpperStr(s))
         \/ IsSubstr(SynText.ALLEN, UpperStr(s))
      /\ UpperStr(main) # SynText.ALLEN_CAP_SCREW

\* the loop over syn_list of one main, lines 102-105 (special) and 112-120
RECURSIVE SynOfMain(_, _, _, _, _)
SynOfMain(out, main, syn_list, desc_up, special) ==
    IF syn_list = <<>> THEN out
    ELSE LET s == Head(syn_list)
             found == TruthyVal(s) /\ IsSubstr(UpperStr(s.v), desc_up)
             keep == IF special THEN KeepSpecial(s.v, main) ELSE KeepRegular(s.v, main)
         IN  SynOfMain(IF found /\ keep THEN Append(out, <<s.v, main>>) ELSE out,
                       main, Tail(syn_list), desc_up, special)

\* the loop over synonyms_dict.items(), lines 100-101 (special) and 110-111
RECURSIVE SynMatches(_, _, _, _)
SynMatches(out, synonyms_dict, desc_up, special) ==
    IF synonyms_dict = <<>> THEN out
    ELSE LET main == Head(synonyms_dict)[1]
             syns == Head(synonyms_dict)[2]
             syn_list == IF syns.tag = "list" THEN syns.v ELSE <<syns>>
         IN  SynMatches(SynOfMain(out, main, syn_list, desc_up, special),
                        Tail(synonyms_dict), desc_up, special)

find_all_synonym_matches(desc, synonyms_dict) ==
    IF desc = <<>> THEN <<>>
    ELSE SynMatches(<<>>, synonyms_dict, UpperStr(desc), IsHexCapscrew(UpperStr(desc)))

\* entries of a synonym map: main and its phrases (a list, or one phrase)
SynEntry ==
    [Allen |-> <<<<"A","L","L","E","N"," ","C","A","P"," ","S","C","R","E","W">>, List(<<Str(<<"C","A","P","S","C","R","E","W">>), Str(<<"A","l","l","e","n"," ","b","o","l","t">>), Str(<<>>)>>)>>,
     Hex |-> <<<<"H","e","x"," ","B","o","l","t">>, List(<<Str(<<"H","E","X"," ","H","D">>), Str(<<"c","a","p","s","c","r","e","w"," ","h","e","x">>)>>)>>,
     Nut |-> <<<<"N","U","T">>, Str(<<"h","e","x">>)>>,
     Socket |-> <<<<"S","O","C","K","E","T"," ","S","C","R","E","W">>, List(<<Str(<<"s","o","c","k","e","t"," ","c","a","p">>), Str(<<"a","l","l","e","n">>)>>)>>]

SynDescs ==
    {<<>>, <<"c","a","p","s","c","r","e","w"," ","h","e","x"," ","h","d">>, <<"C","A","P","S","C","R","E","W"," ","H","E","X","H","D"," ","M","8">>, <<"h","e","x"," ","h","e","a","d"," ","c","a","p","s","c","r","e","w">>,
     <<"A","l","l","e","n"," ","b","o","l","t"," ","h","e","x">>, <<"s","o","c","k","e","t"," ","c","a","p"," ","s","c","r","e","w">>, <<"H","E","X"," ","N","U","T">>, <<"c","a","p","s","c","r","e","w">>}

MaxMains == 3

\* the maps, each told by the names of its entries: a map has no main twice
SynMaps ==
    UNION {{ns \in [1..n -> DOMAIN SynEntry] : \A a, b \in 1..n : a # b => ns[a] # ns[b]}
           : n \in 0..MaxMains}

SynIdle ==
    /\ synIn = [desc |-> <<>>, synonyms_dict |-> <<>>]
    /\ synOut = <<>>
    /\ synPc = "off"

SynInit ==
    /\ \E desc \in SynDescs, ns \in SynMaps :
          synIn = [desc |-> desc, synonyms_dict |-> [k \in 1..Len(ns) |-> SynEntry[ns[k]]]]
    /\ synOut = <<>>
    /\ synPc = "called"

\* lines 94-95: no description
ReturnEmpty ==
    /\ synPc = "called"
    /\ synIn.desc = <<>>
    /\ synOut' = find_all_synonym_matches(synIn.desc, synIn.synonyms_dict)
    /\ synPc' = "empty"
    /\ UNCHANGED <<synIn, FirstVars, catVars, casVars, dinVars, nmVars, duVars, grVars, famVars>>

\* lines 99-108: the special case
MatchSpecial ==
    /\ synPc = "called"
    /\ synIn.desc # <<>>
    /\ IsHexCapscrew(UpperStr(synIn.desc))
    /\ synOut' = find_all_synonym_matches(synIn.desc, synIn.synonyms_dict)
    /\ synPc' = "special"
    /\ UNCHANGED <<synIn, FirstVars, catVars, casVars, dinVars, nmVars, duVars, grVars, famVars>>

\* lines 110-121: regular matching
MatchRegular ==
    /\ synPc = "called"
    /\ synIn.desc # <<>>
    /\ ~IsHexCapscrew(UpperStr(synIn.desc))
    /\ synOut' = find_all_synonym_matches(synIn.desc, synIn.synonyms_dict)
    /\ synPc' = "regular"
    /\ UNCHANGED <<synIn, FirstVars, catVars, casVars, dinVars, nmVars, duVars, grVars, famVars>>

-----------------------------------------------------------------------------
(* detect_dimension_unit (src/app3.py, lines 487-513, and                 *)
(* src/app3_with_synonyms.py, lines 1186-1192)                            *)

\* The regular expressions are followed by the sets of positions (characters
\* consumed so far) at which a match can stand: a search starts anywhere.
ReStart(d) == 0..Len(d)

\* a literal text
ReLit(d, P, lit) ==
    {p + Len(lit) : p \in {q \in P : q + Len(lit) <= Len(d)
                                       /\ SubSeq(d, q + 1, q + Len(lit)) = lit}}

\* \d+
ReDigits(d, P) ==
    {e \in 1..Len(d) : \E p \in P : p < e /\ \A k \in (p + 1)..e : IsDigit(d[k])}

\* \s*
ReSpaces(d, P) ==
    {e \in 0..Len(d) : \E p \in P : p <= e /\ \A k \in (p + 1)..e : d[k] = " "}

\* \b
ReBoundary(d, P) == {p \in P : AtWordBoundary(d, p)}

\* desc.upper().replace("×", "X")
UpperX(desc) == [k \in 1..Len(desc) |-> IF desc[k] = "×" THEN "X" ELSE UpperChar(desc[k])]

\* the metric tests of app3.py, lines 494-501
MetricPattern(d) ==
    LET m == ReDigits(d, ReSpaces(d, ReLit(d, ReBoundary(d, ReStart(d)), <<"M">>)))
    IN  \/ ReBoundary(d, m \cup ReDigits(d, ReLit(d, m, <<".">>))) # {}
        \/ ReBoundary(d, ReLit(d, ReSpaces(d, ReDigits(d, ReBoundary(d, ReStart(d)))),
                                  <<"M", "M">>)) # {}
        \/ ReLit(d, ReSpaces(d, ReDigits(d, ReLit(d, ReBoundary(d, ReStart(d)), <<"M">>))),
                 <<"X">>) # {}
        \/ \E tok \in {<<" ","D","I","N">>, <<" ","I","S","O">>, <<" ","M","E","T","R","I","C">>} : IsSubstr(tok, d)

\* \d+\s*/\s*\d+ from the positions P
ReFraction(d, P) ==
    ReDigits(d, ReSpaces(d, ReLit(d, ReSpaces(d, ReDigits(d, P)), <<"/">>)))

\* (?:\"|''|INCH|\bIN\b) from the positions P
ReInchMark(d, P) ==
    ReLit(d, P, <<"\"">>) \cup ReLit(d, P, <<"'", "'">>) \cup ReLit(d, P, <<"I","N","C","H">>)
        \cup ReBoundary(d, ReLit(d, ReBoundary(d, P), <<"I","N">>))

\* the inch tests of app3.py, lines 504-511
InchPattern(d) ==
    \/ ReInchMark(d, ReSpaces(d, ReFraction(d, ReStart(d)))) # {}
    \/ ReInchMark(d, ReSpaces(d, ReFraction(d,
           ReSpaces(d, ReLit(d, ReSpaces(d, ReDigits(d, ReStart(d))), <<"-">>))))) # {}
    \/ LET q == ReSpaces(d, ReDigits(d, ReStart(d)))
       IN  ReBoundary(d, ReLit(d, q, <<"\"">>) \cup ReLit(d, q, <<"'", "'">>)
                             \cup ReLit(d, ReBoundary(d, q), <<"I","N","C","H">>)
                             \cup ReBoundary(d, ReLit(d, ReBoundary(d, q), <<"I","N">>))) # {}
    \/ \E tok \in {<<"U","N","C">>, <<"U","N","F">>, <<"#">>, <<" ","I","N","C","H"," ","T","H","R","E","A","D">>} : IsSubstr(tok, d)

\* app3.py, lines 487-513
detect_dimension_unit(desc) ==
    IF desc = <<>> THEN <<>>
    ELSE IF MetricPattern(UpperX(desc)) THEN <<"m","e","t","r","i","c">>
    ELSE IF InchPattern(UpperX(desc)) THEN <<"i","n","c","h">>
    ELSE <<>>

\* the metric test of app3_with_synonyms.py, line 1188
MetricPatternSynonyms(d) ==
    \/ ReDigits(d, ReLit(d, ReBoundary(d, ReStart(d)), <<"M">>)) # {}
    \/ \E tok \in {<<"M","M">>, <<" ","D","I","N">>, <<" ","I","S","O">>} : IsSubstr(tok, d)

\* the inch test of app3_with_synonyms.py, line 1190
InchPatternSynonyms(d) == \E tok \in {<<"\"">>, <<"I","N","C","H">>, <<"#">>} : IsSubstr(tok, d)

\* app3_with_synonyms.py, lines 1186-1192
detect_dimension_unit_synonyms(desc) ==
    IF MetricPatternSynonyms(UpperX(desc)) THEN <<"m","e","t","r","i","c">>
    ELSE IF InchPatternSynonyms(UpperX(desc)) THEN <<"i","n","c","h">>
    ELSE <<"m","e","t","r","i","c">>

MaxDesc == 3

\* the descriptions: every text of at most MaxDesc characters of a small
\* alphabet, and longer ones for the single tests
DuDescs ==
    SeqsUpTo({"M", "1", "/", "\"", " "}, MaxDesc)
        \cup {<<"M","1","0"," ","X"," ","5","0">>, <<"1","/","2","\""," ","X"," ","2","\""," ","H","E","X"," ","B","O","L","T">>, <<"H","E","X"," ","B","O","L","T">>, <<"1","0","M","M">>, <<"M","8","×","1">>, <<"M","2",".","5">>,
              <<"B","O","L","T"," ","D","I","N"," ","9","3","3">>, <<"3","/","8"," ","I","N">>, <<"1","-","1","/","2","'","'">>, <<"2"," ","I","N","C","H"," ","X">>, <<"1","/","4"," ","U","N","C">>, <<"M","1","0"," ","1","/","2","\"">>,
              <<"I","N","C","H">>, <<"5"," ","M","M">>}

DuIdle ==
    /\ duIn = <<>>
    /\ duOut = <<>>
    /\ duPc = "off"

DuInit ==
    /\ duIn \in DuDescs
    /\ duOut = <<>>
    /\ duPc = "called"

\* the definition of app3.py is called
DetectUnit ==
    /\ duPc = "called"
    /\ duOut' = detect_dimension_unit(duIn)
    /\ duPc' = "app3"
    /\ UNCHANGED <<duIn, FirstVars, catVars, casVars, dinVars, nmVars, synVars, grVars, famVars>>

\* the definition of app3_with_synonyms.py is called
DetectUnitSynonyms ==
    /\ duPc = "called"
    /\ duOut' = detect_dimension_unit_synonyms(duIn)
    /\ duPc' = "synonyms"
    /\ UNCHANGED <<duIn, FirstVars, catVars, casVars, dinVars, nmVars, synVars, grVars, famVars>>

-----------------------------------------------------------------------------
(* extract_candidate_terms (src/app3.py, lines 337-358) and               *)
(* get_grades_from_desc (lines 379-408)                                   *)

\* A pattern is a sequence of elements: a character class repeated lo..hi
\* times (greedy), a word boundary, or an optional group.
ReClass(set, lo, hi) == <<[k |-> "set", set |-> set, lo |-> lo, hi |-> hi]>>
ReText(text) == [j \in 1..Len(text) |-> [k |-> "set", set |-> {text[j]}, lo |-> 1, hi |-> 1]]
ReB == <<[k |-> "b"]>>
ReOpt(sub) == <<[k |-> "opt", sub |-> sub]>>

\* re.match of a pattern at position p of d: the position where the match
\* ends, as the backtracking matcher finds it (the longest repetition first),
\* or -1
RECURSIVE ReMatch(_, _, _)
ReMatch(pat, d, p) ==
    IF pat = <<>> THEN p
    ELSE LET e == Head(pat) IN
         CASE e.k = "b" -> IF AtWordBoundary(d, p) THEN ReMatch(Tail(pat), d, p) ELSE -1
           [] e.k = "opt" ->
                IF ReMatch(e.sub \o Tail(pat), d, p) # -1 THEN ReMatch(e.sub \o Tail(pat), d, p)
                ELSE ReMatch(Tail(pat), d, p)
           [] e.k = "set" ->
                LET ok == {n \in e.lo..e.hi :
                              /\ p + n <= Len(d)
                              /\ \A j \in 1..n : d[p + j] \in e.set
                              /\ ReMatch(Tail(pat), d, p + n) # -1}
                IN  IF ok = {} THEN -1
                    ELSE ReMatch(Tail(pat), d, p + (CHOOSE n \in ok : \A m \in ok : m <= n))

\* re.findall(pat, d) of a pattern without group: the matches from left to
\* right, none overlapping
RECURSIVE FindAll(_, _, _)
FindAll(pat, d, p) ==
    IF p > Len(d) THEN <<>>
    ELSE LET e == ReMatch(pat, d, p)
         IN  IF e = -1 THEN FindAll(pat, d, p + 1)
             ELSE <<SubSeq(d, p + 1, e)>> \o FindAll(pat, d, IF e = p THEN p + 1 ELSE e)

ReChars ==
    [AZ |-> {UpperLetters[k] : k \in 1..26},
     D |-> {Digits[k] : k \in 1..10},
     S |-> {" "}]

\* the longest repetition a description of the model can hold
ReMany == 12

\* patterns, lines 338-351
GradePatterns ==
    LET AZ == ReChars.AZ
        D == ReChars.D
        AN == AZ \cup D
    IN  << ReText(<<"S","A">>) \o ReClass(D, 3, 4) \o ReClass(ReChars.S, 0, ReMany) \o ReText(<<"G","R">>)
              \o ReClass(ReChars.S, 0, ReMany) \o ReClass(AN, 1, ReMany),
           ReText(<<"A">>) \o ReClass(D, 3, 4) \o ReClass(ReChars.S, 0, ReMany) \o ReClass(AN, 1, ReMany),
           ReB \o ReClass(AZ, 1, 3) \o ReClass(D, 2, 4) \o ReClass(AN \cup {"-"}, 0, ReMany) \o ReB,
           ReText(<<"H","A","S","T","E","L","L","O","Y">>) \o ReClass(ReChars.S, 0, ReMany) \o ReClass(AN, 0, ReMany),
           ReText(<<"I","N","C","O","N","E","L">>) \o ReClass(ReChars.S, 0, ReMany) \o ReClass(AN, 0, ReMany),
           ReText(<<"A","L","L","O","Y">>) \o ReClass(ReChars.S, 0, ReMany) \o ReClass(AN \cup {"-"}, 0, ReMany),
           ReText(<<"M","O","N","E","L">>) \o ReClass(ReChars.S, 0, ReMany) \o ReClass(AN, 0, ReMany),
           ReText(<<"T","I">>) \o ReClass(AN \cup {".", "-"}, 1, ReMany),
           ReText(<<"F">>) \o ReClass(D, 2, 3),
           ReB \o ReText(<<"C","L">>) \o ReClass(ReChars.S, 0, ReMany) \o ReClass(D, 1, ReMany)
              \o ReOpt(ReText(<<".">>) \o ReClass(D, 1, ReMany)) \o ReB,
           ReB \o ReClass(D, 1, ReMany) \o ReText(<<".">>) \o ReClass(D, 1, ReMany) \o ReB,
           ReText(<<"A","S","T","M">>) \o ReClass(ReChars.S, 0, ReMany) \o ReClass(AZ, 0, 1)
              \o ReClass(D, 1, 4) \o ReClass(AN \cup {"-"}, 0, ReMany) >>

\* what re.findall gives for pattern i: the matches, and for the pattern with
\* a group (the tenth) the text of the group, empty when the group took no part
FoundBy(i, d) ==
    LET ms == FindAll(GradePatterns[i], d, 0)
    IN  IF i # 10 THEN ms
        ELSE [j \in 1..Len(ms) |->
                 IF \E h \in 1..Len(ms[j]) : ms[j][h] = "."
                 THEN SubSeq(ms[j], CHOOSE h \in 1..Len(ms[j]) : ms[j][h] = ".", Len(ms[j]))
                 ELSE <<>>]

\* lines 355-357: if match and match not in found: found.append(match.strip())
RECURSIVE AddFound(_, _)
AddFound(found, ms) ==
    IF ms = <<>> THEN found
    ELSE AddFound(IF Head(ms) # <<>> /\ ~InList(Head(ms), found)
                  THEN Append(found, Strip(Head(ms))) ELSE found,
                  Tail(ms))

RECURSIVE CandidatesFrom(_, _, _)
CandidatesFrom(i, d, found) ==
    IF i > Len(GradePatterns) THEN found
    ELSE CandidatesFrom(i + 1, d, AddFound(found, FoundBy(i, d)))

extract_candidate_terms(desc) == CandidatesFrom(1, UpperStr(desc), <<>>)

\* fuzz.partial_ratio(a, b) >= 85 (lines 394, 398).  The score is that of the
\* best alignment of the shorter text in the longer one; when the shorter text
\* has at most three characters a single differing character already brings
\* the score to 80 or less, so the threshold is reached exactly when the
\* shorter text, not empty, is contained in the longer.  The texts of the model
\* keep the shorter one within three characters.
PartialRatioReaches(a, b) ==
    IF Len(a) <= Len(b) THEN a # <<>> /\ IsSubstr(a, b)
    ELSE b # <<>> /\ IsSubstr(b, a)

\* lines 386-395: one reference grade against one candidate
GradeAgainst(st, grade_val, cand, desc_upper) ==
    LET norm_grade == normalize(grade_val)
        norm_cand == normalize(cand)
    IN  IF norm_grade = <<>> THEN st
        ELSE [exact_match |-> IF IsSubstr(norm_grade, normalize(desc_upper)) THEN grade_val
                              ELSE st.exact_match,
              matches |-> IF \/ IsSubstr(norm_grade, norm_cand)
                             \/ IsSubstr(norm_cand, norm_grade)
                             \/ PartialRatioReaches(norm_grade, norm_cand)
                          THEN Append(st.matches, grade_val) ELSE st.matches]

\* lines 384-395: the loop over the candidates and, for each, over all_grades;
\* a match is told by its grade value (title and key play no part in the result)
RECURSIVE GradeLoop(_, _, _, _, _)
GradeLoop(st, cands, grades, all, desc_upper) ==
    IF cands = <<>> THEN st
    ELSE IF grades = <<>> THEN GradeLoop(st, Tail(cands), all, all, desc_upper)
    ELSE GradeLoop(GradeAgainst(st, Head(grades), Head(cands), desc_upper),
                   cands, Tail(grades), all, desc_upper)

\* lines 396-399: without a match, every grade is tried against the description
GradeFallback(matches, all, desc_upper) ==
    IF matches # <<>> THEN matches
    ELSE SelectSeq(all, LAMBDA g : PartialRatioReaches(normalize(g), desc_upper))

ExactFirst(matches, exact_match) ==
    IF exact_match = <<>> THEN matches
    ELSE SelectSeq(matches, LAMBDA g : g = exact_match)
            \o SelectSeq(matches, LAMBDA g : g # exact_match)

\* the descriptions and the reference grades of the model
GrDescs ==
    {<<>>, <<"S","t","u","d"," ","B","-","7">>, <<"B","O","L","T"," ","8",".","8"," ","B","7">>, <<"H","E","X"," ","B","O","L","T"," ","B","7">>, <<"S","S"," ","3","0","4"," ","N","U","T">>, <<"F","3","0","4"," ","L","7">>,
     <<"C","L"," ","1","2",".","5"," ","B","7">>, <<"A","8","8"," ","8",".","8">>}

GrGrades == {<<"B","7">>, <<"8",".","8">>, <<"A","8","8">>, <<"L","7">>, <<"3","0","4">>}

MaxGrades == 2

GrIdle ==
    /\ grIn = [desc |-> <<>>, all_grades |-> <<>>]
    /\ grSt = [candidates |-> <<>>, matches |-> <<>>, exact_match |-> <<>>]
    /\ grOut = <<>>
    /\ grPc = "off"

GrInit ==
    /\ grIn \in [desc : GrDescs, all_grades : SeqsUpTo(GrGrades, MaxGrades)]
    /\ grSt = [candidates |-> <<>>, matches |-> <<>>, exact_match |-> <<>>]
    /\ grOut = <<>>
    /\ grPc = "called"

\* lines 380-395: the candidates are extracted and matched against all_grades
MatchCandidates ==
    /\ grPc = "called"
    /\ \E cands \in {extract_candidate_terms(grIn.desc)} :
       \E st \in {GradeLoop([exact_match |-> <<>>, matches |-> <<>>], cands,
                            grIn.all_grades, grIn.all_grades, UpperStr(grIn.desc))} :
          grSt' = [candidates |-> cands, matches |-> st.matches, exact_match |-> st.exact_match]
    /\ grPc' = "matched"
    /\ UNCHANGED <<grIn, grOut, FirstVars, catVars, casVars, dinVars, nmVars, synVars, duVars, famVars>>

\* lines 396-408: the fallback, the exact match moved to the front, the
\* duplicates dropped
ReturnGrades ==
    /\ grPc = "matched"
    /\ grOut' = AddNew(<<>>, ExactFirst(GradeFallback(grSt.matches, grIn.all_grades,
                                                       UpperStr(grIn.desc)),
                                        grSt.exact_match))
    /\ grPc' = "returned"
    /\ UNCHANGED <<grIn, grSt, FirstVars, catVars, casVars, dinVars, nmVars, synVars, duVars, famVars>>

-----------------------------------------------------------------------------
(* The family of a record's standard: standard_family_of of src/app3.py    *)
(* (lines 469-482) as the family options and the cascade call it (lines    *)
(* 903-904, 973), and the first whitespace token that                      *)
(* src/app3_with_synonyms.py takes instead (lines 1985-1986, 2052)         *)

\* sv.split()[0] if sv else ""
FirstToken(sv) == IF sv = <<>> THEN <<>> ELSE FirstWord(sv)

MaxStd == 3

\* the standards: every text of at most MaxStd characters of a small
\* alphabet, and standards of the catalogue's kinds
FamStandards ==
    SeqsUpTo({"B", "S", "U", "1", " "}, MaxStd)
        \cup {<<"D","I","N"," ","9","3","3">>, <<"d","i","n"," ","9","3","3">>, <<"I","S","O","4","0","1","7">>, <<"I","S","O"," ","4","0","1","7">>, <<"9","3","1">>, <<"U","N","C"," ","1","/","4">>, <<"A","S","M","E"," ","B","1","8">>,
              <<"A","S","T","M"," ","A","1","9","3">>, <<"A","N","S","I"," ","B","1">>, <<"A"," ","D","I","N"," ","5">>, <<"B","S","W"," ","1","/","2">>, <<" ","D","I","N"," ","1"," ">>}

FamIdle ==
    /\ famIn = <<>>
    /\ famOut = <<>>
    /\ famPc = "off"

FamInit ==
    /\ famIn \in FamStandards
    /\ famOut = <<>>
    /\ famPc = "called"

\* app3.py, lines 903-904: sv = str(it.get("standard") or "").strip();
\* fam = standard_family_of(sv)
FamilyOfStandard ==
    /\ famPc = "called"
    /\ famOut' = standard_family_of(Strip(famIn))
    /\ famPc' = "app3"
    /\ UNCHANGED <<famIn, FirstVars, catVars, casVars, dinVars, nmVars, synVars, duVars, grVars>>

\* app3_with_synonyms.py, lines 1985-1986 and 2052: the first token of sv
FamilyOfStandardSynonyms ==
    /\ famPc = "called"
    /\ famOut' = FirstToken(Strip(famIn))
    /\ famPc' = "synonyms"
    /\ UNCHANGED <<famIn, FirstVars, catVars, casVars, dinVars, nmVars, synVars, duVars, grVars>>

-----------------------------------------------------------------------------
(* Specifications *)

\* the sub-models below the mapping page section, parked
MoreIdle == CatIdle /\ CasIdle /\ DinIdle /\ NmIdle /\ SynIdle /\ DuIdle /\ GrIdle /\ FamIdle

Init == OverrideInit /\ ComboIdle /\ CalcIdle /\ SortIdle /\ MoreIdle
Next ==
    \/ Rerun
    \/ \E slot \in Slots, field \in Fields :
         \E k \in 1..Len(Options(field)) : UserSelect(slot, field, Options(field)[k])
    \/ StartRun
    \/ RenderSlot
Spec == Init /\ [][Next]_vars

InitCombo == ComboInit /\ OverrideIdle /\ CalcIdle /\ SortIdle /\ MoreIdle
NextCombo == ParseCombo
SpecCombo == InitCombo /\ [][NextCombo]_vars

InitCalc == CalcInit /\ OverrideIdle /\ ComboIdle /\ SortIdle /\ MoreIdle
NextCalc == CalculateSingle \/ CalculateCombo
SpecCalc == InitCalc /\ [][NextCalc]_vars

InitSort == SortInit /\ OverrideIdle /\ ComboIdle /\ CalcIdle /\ MoreIdle
NextSort == SortDiameters \/ SortAgain
SpecSort == InitSort /\ [][NextSort]_vars

FirstIdle == OverrideIdle /\ ComboIdle /\ CalcIdle /\ SortIdle

InitCat == CatInit /\ FirstIdle /\ CasIdle /\ DinIdle /\ NmIdle /\ SynIdle /\ DuIdle /\ GrIdle /\ FamIdle
NextCat == NormalizeRecord \/ ReturnNormalized
SpecCat == InitCat /\ [][NextCat]_vars

InitCas == CasInit /\ FirstIdle /\ CatIdle /\ DinIdle /\ NmIdle /\ SynIdle /\ DuIdle /\ GrIdle /\ FamIdle
NextCas == CascadePass1 \/ CascadePass2 \/ CascadePass3 \/ CascadeDedupe
SpecCas == InitCas /\ [][NextCas]_vars

InitDin == DinInit /\ FirstIdle /\ CatIdle /\ CasIdle /\ NmIdle /\ SynIdle /\ DuIdle /\ GrIdle /\ FamIdle
NextDin == DinStep \/ DinReturn
SpecDin == InitDin /\ [][NextDin]_vars

InitNm == NmInit /\ FirstIdle /\ CatIdle /\ CasIdle /\ DinIdle /\ SynIdle /\ DuIdle /\ GrIdle /\ FamIdle
NextNm == Normalize \/ NormalizeAgain \/ TokenInText
SpecNm == InitNm /\ [][NextNm]_vars

InitSyn == SynInit /\ FirstIdle /\ CatIdle /\ CasIdle /\ DinIdle /\ NmIdle /\ DuIdle /\ GrIdle /\ FamIdle
NextSyn == ReturnEmpty \/ MatchSpecial \/ MatchRegular
SpecSyn == InitSyn /\ [][NextSyn]_vars

InitDu == DuInit /\ FirstIdle /\ CatIdle /\ CasIdle /\ DinIdle /\ NmIdle /\ SynIdle /\ GrIdle /\ FamIdle
NextDu == DetectUnit \/ DetectUnitSynonyms
SpecDu == InitDu /\ [][NextDu]_vars

InitGr == GrInit /\ FirstIdle /\ CatIdle /\ CasIdle /\ DinIdle /\ NmIdle /\ SynIdle /\ DuIdle /\ FamIdle
NextGr == MatchCandidates \/ ReturnGrades
SpecGr == InitGr /\ [][NextGr]_vars

InitFam == FamInit /\ FirstIdle /\ CatIdle /\ CasIdle /\ DinIdle /\ NmIdle /\ SynIdle /\ DuIdle /\ GrIdle
NextFam == FamilyOfStandard \/ FamilyOfStandardSynonyms
SpecFam == InitFam /\ [][NextFam]_vars

-----------------------------------------------------------------------------
(* Properties of the mapping page, checked under Spec *)

\* the block of slot s has run in the current script run (or the run is over)
Rendered(s) ==
    \/ pc = "idle"
    \/ pc = "render" /\ \E k \in 1..(cursor - 1) : SlotOrder[k] = s

\* C1: once the user has chosen a grade for a slot, the slot's session value
\* is the user's latest choice in every later state, the slot's Grade_n cell
\* is that choice whenever a recomputation has rendered the slot, and the
\* exact-match grade is auto-written only for a slot that holds no non-empty
\* user-chosen grade.
C1_GradeOverrideGuard ==
    \A s \in Slots :
        /\ userChoice[s].grade # None =>
              /\ session[Key(s, "grade")] = userChoice[s].grade
              /\ Rendered(s) => df[Cell(s, "grade")] = userChoice[s].grade
        /\ s \in autoWrote => userChoice[s].grade \in {None, ""}

\* C1 witness: a recomputation has finished, the description of row 0 names
\* grade A2, the user chose B7 for slot (0,1), and B7 is what is stored
C1_Witness ==
    /\ pc = "idle" /\ lastStep.kind = "render"
    /\ ExactFoundOfRow[0] = "A2"
    /\ userChoice[<<0, 1>>].grade = "B7"
    /\ session[Key(<<0, 1>>, "grade")] = "B7"
    /\ df[Cell(<<0, 1>>, "grade")] = "B7"

\* C2: once the user has chosen a finish for a slot, every later
\* recomputation leaves the slot's session value and its Finish_n cell equal
\* to the user's latest choice.
C2_FinishOverrideGuard ==
    \A s \in Slots :
        (userChoice[s].finish # None /\ Rendered(s)) =>
            /\ session[Key(s, "finish")] = userChoice[s].finish
            /\ df[Cell(s, "finish")] = userChoice[s].finish

\* C3: a user selection in a slot, or the rendering of a slot (which writes
\* the auto-suggestions), leaves the session values and the cells of every
\* other (row, slot) pair unchanged.
C3_SlotFrame ==
    [][\A s \in Slots :
          (lastStep'.kind \in {"select", "render"} /\ lastStep'.slot # s) =>
              \A f \in Fields :
                  /\ session'[Key(s, f)] = session[Key(s, f)]
                  /\ df'[Cell(s, f)] = df[Cell(s, f)]]_vars

\* C3 witness: the user has just selected grade B7 in slot (0,2) while slot
\* (0,1) of the same row keeps the auto-mapped A2
C3_Witness ==
    /\ lastStep = [kind |-> "select", slot |-> <<0, 2>>]
    /\ session[Key(<<0, 2>>, "grade")] = "B7"
    /\ session[Key(<<0, 1>>, "grade")] = "A2"
    /\ df[Cell(<<0, 1>>, "grade")] = "A2"

-----------------------------------------------------------------------------
(* Properties of parse_combo_input, checked under SpecCombo *)

\* the positions of the recognized words among the tokens of the input, and
\* the position of the j-th of them
RecognizedAt(ws) == {k \in 1..Len(ws) : ws[k] \in CategoryWords}
NthRecognized(ws, j) ==
    CHOOSE k \in RecognizedAt(ws) : Cardinality({i \in RecognizedAt(ws) : i < k}) = j - 1

\* the multiplier pending at token k: the last numeric token after the
\* previous recognized word, 1 when there is none
PendingAt(ws, k) ==
    LET prev == {i \in RecognizedAt(ws) : i < k}
        from == IF prev = {} THEN 0 ELSE CHOOSE i \in prev : \A h \in prev : h <= i
        nums == {i \in (from + 1)..(k - 1) : IsDigitWord(ws[i])}
    IN  IF nums = {} THEN 1 ELSE IntOf(ws[CHOOSE i \in nums : \A h \in nums : h <= i])

ExampleComboOut ==
    << [type |-> <<"s","t","u","d">>, count |-> 1],
       [type |-> <<"n","u","t">>, count |-> 2],
       [type |-> <<"w","a","s","h","e","r">>, count |-> 1] >>

\* C4: the tokens are runs of letters or of digits that together spell the
\* lower-cased text without its other characters; the output lists the
\* recognized words in text order, each with the multiplier set by the last
\* numeric token since the previous recognized word (1 if none), other words
\* changing nothing; and the documented example parses to stud x1, nut x2,
\* washer x1.
C4_ComboScan ==
    comboDone =>
        LET ws == ComboWords(comboInp) IN
        /\ \A k \in 1..Len(ws) :
              /\ ws[k] # <<>>
              /\ IsDigitWord(ws[k]) \/ \A h \in 1..Len(ws[k]) : IsLower(ws[k][h])
        /\ Concat(ws) = SelectSeq(LowerStr(comboInp), LAMBDA c : CharClass(c) # "other")
        /\ Len(comboOut) = Cardinality(RecognizedAt(ws))
        /\ \A j \in 1..Len(comboOut) :
              /\ comboOut[j].type = ws[NthRecognized(ws, j)]
              /\ comboOut[j].count = PendingAt(ws, NthRecognized(ws, j))
        /\ comboInp = ExampleComboText => comboOut = ExampleComboOut

\* C4 witness: the documented example has been parsed; its words WITH and
\* AND are ignored and its 2 is applied to NUT
C4_Witness ==
    /\ comboDone
    /\ comboInp = ExampleComboText
    /\ comboOut = ExampleComboOut
    /\ Len(ComboWords(comboInp)) = 6

\* C5: every component of every parse result has a count of at least 1 and
\* a type among stud, nut, washer, bolt and screw.
C5_ComponentShape ==
    comboDone =>
        \A j \in 1..Len(comboOut) :
            /\ comboOut[j].count >= 1
            /\ comboOut[j].type \in CategoryWords

-----------------------------------------------------------------------------
(* Properties of find_rate and of the conversion, checked under SpecCalc *)

\* the rows find_rate scans, in scanning order, and the length field of a row
\* of the selected table
ScannedRows == Concat([e \in 1..Len(calcEntries) |-> calcEntries[e][DimsKey(calcDim)]])
RowLength(dim) == IF calcDim = "metric" THEN dim.length_mm ELSE dim.length

\* C6: a scanned row without a length that carries a non-empty rate under the
\* requested diameter supplies the result, whatever length was requested,
\* unless the rows before it already supply one.
C6_LengthAgnosticRow ==
    calcMode # None =>
        \A k \in 1..Len(ScannedRows) :
            (/\ RowLength(ScannedRows[k]) = None
             /\ Truthy(DiaGet(ScannedRows[k].diameter, calcDia))
             /\ find_rate(<<MkEntry(<<>>, calcDim, SubSeq(ScannedRows, 1, k - 1))>>,
                          calcLen, calcDia, calcDim) = NoRate)
            => calcRate = DiaGet(ScannedRows[k].diameter, calcDia)

\* C6 witness: length 60 was requested from a metric table whose first row
\* has length 50 and whose second row has no length and rate 5; the result is 5
C6_Witness ==
    /\ calcMode # None
    /\ calcDim = "metric" /\ calcLen = "60"
    /\ Len(ScannedRows) = 2
    /\ ScannedRows[1].length_mm = "50" /\ DiaGet(ScannedRows[1].diameter, calcDia) = 2000
    /\ ScannedRows[2].length_mm = None /\ DiaGet(ScannedRows[2].diameter, calcDia) = 5
    /\ calcRate = 5

\* C7: the result is the value under the requested diameter in the first
\* scanned row whose length equals the requested length or is absent and
\* which has that diameter, absent if there is no such row; so a row whose
\* length is present and differs from the requested one never supplies it.
C7_FirstMatchingRow ==
    calcMode # None =>
        LET hits == {k \in 1..Len(ScannedRows) :
                        /\ RowLength(ScannedRows[k]) \in {calcLen, None}
                        /\ DiaGet(ScannedRows[k].diameter, calcDia) # NoRate}
        IN  calcRate = IF hits = {} THEN NoRate
                       ELSE DiaGet(ScannedRows[CHOOSE k \in hits : \A j \in hits : k <= j].diameter,
                                   calcDia)

\* the conversion as documented: unit lower-cased, rate v
DocumentedWeight(unit, v) ==
    LET u == LowerStr(unit) IN
    IF IsSubstr(MarkPricePerPiece, u) THEN Frac(v, 1)
    ELSE IF IsSubstr(MarkWeightPer100, u) \/ IsSubstr(Mark100Nos, u) THEN Frac(v, 100)
    ELSE IF IsSubstr(MarkCountPer50, u) THEN Frac(50, v)
    ELSE Frac(50, v)

\* C8: in single-item and in combo calculation alike, a found rate v is
\* converted to v, v/100 or 50/v by the unit's marker, and to 50/v for a unit
\* without a marker; "Approx. Count per 50 kgs." with 2000 gives 1/40.
C8_RateToWeight ==
    (calcMode # None /\ Truthy(calcRate)) =>
        /\ calcWeight = DocumentedWeight(calcEntries[1].unit, calcRate)
        /\ (calcEntries[1].unit = UnitCountPer50 /\ calcRate = 2000) => calcWeight = <<1, 40>>

-----------------------------------------------------------------------------
(* Properties of sort_diameters, checked under SpecSort *)

\* C9: sorting the output of sort_diameters again, for the same dimension
\* type, reproduces it.
C9_SortIdempotent == sortDone = "resorted" => sortOut = sortIn

\* C9 witness: a sorted metric list of three labels, two of them of equal
\* key, has been sorted again
C9_Witness ==
    /\ sortDone = "resorted" /\ sortDim = "metric"
    /\ Len(sortIn) = 3
    /\ \E i, j \in 1..3 : i < j /\ metric_key(sortIn[i]) = metric_key(sortIn[j])
    /\ sortOut = sortIn

FirstAt(xs, x) == CHOOSE k \in 1..Len(xs) : xs[k] = x /\ \A j \in 1..(k - 1) : xs[j] # x

\* C10: the output holds each distinct input label exactly once, in
\* non-decreasing key order, labels of equal key in first-occurrence order;
\* the metric key is the number spelled by the label's digits, the inch key
\* the value of its fraction or decimal, 9999 when there is none.
C10_SortDiameters ==
    /\ sortDone = "sorted" =>
          /\ {sortOut[k] : k \in 1..Len(sortOut)} = {sortIn[k] : k \in 1..Len(sortIn)}
          /\ \A i, j \in 1..Len(sortOut) : i # j => sortOut[i] # sortOut[j]
          /\ \A i, j \in 1..Len(sortOut) :
                i < j =>
                   /\ ~KeyLess(SortKey(sortOut[j], sortDim), SortKey(sortOut[i], sortDim))
                   /\ ~KeyLess(SortKey(sortOut[i], sortDim), SortKey(sortOut[j], sortDim))
                         => FirstAt(sortIn, sortOut[i]) < FirstAt(sortIn, sortOut[j])
    /\ metric_key(<<"M","1","0">>) = 10 /\ metric_key(<<"M"," ","1","0">>) = 10
    /\ metric_key(<<"1","/","2","\"">>) = 12 /\ metric_key(<<"M">>) = 9999
    /\ inch_key(<<"1","/","2","\"">>) = <<1, 2>> /\ inch_key(<<"2","/","4">>)[1] * 2 = inch_key(<<"2","/","4">>)[2]
    /\ inch_key(<<".","5">>)[1] * 2 = inch_key(<<".","5">>)[2]
    /\ inch_key(<<"1","/","0">>) = <<9999, 1>> /\ inch_key(<<"M","8">>) = <<9999, 1>>

\* C10 witness: the metric list M10, M8, M10 has been sorted to M8, M10
C10_Witness ==
    /\ sortDone = "sorted" /\ sortDim = "metric"
    /\ sortIn = << <<"M","1","0">>, <<"M","8">>, <<"M","1","0">> >>
    /\ sortOut = << <<"M","8">>, <<"M","1","0">> >>


-----------------------------------------------------------------------------
(* Properties of load_catalogue, checked under SpecCat *)

\* the entries of normalized derived from the i-th record handled
RECURSIVE EntriesBefore(_)
EntriesBefore(i) == IF i <= 1 THEN 0 ELSE EntriesBefore(i - 1) + catLog[i - 1].count
EntriesOf(i) == SubSeq(catOut, EntriesBefore(i) + 1, EntriesBefore(i) + catLog[i].count)

\* the four shape tests as documented, and the first one a record passes (0: none)
PassesTest(rec, k) ==
    CASE k = 1 -> HasKey(rec, CatKey.screw_type)
      [] k = 2 -> HasKey(rec, CatKey.title) /\ (HasKey(rec, CatKey.dimensions_unit) \/ HasKey(rec, CatKey.data))
      [] k = 3 -> HasKey(rec, CatKey.approx_count_per_50_kgs) \/ HasKey(rec, CatKey.hex_locknuts)
      [] k = 4 -> HasKey(rec, CatKey.title) /\ HasKey(rec, CatKey.unit)
FirstTest(rec) ==
    IF \E k \in 1..4 : PassesTest(rec, k)
    THEN CHOOSE k \in 1..4 : PassesTest(rec, k) /\ \A j \in 1..(k - 1) : ~PassesTest(rec, j)
    ELSE 0
TransformOfShape(rec, k) ==
    CASE k = 1 -> Shape1(rec).out
      [] k = 2 -> Shape2(rec).out
      [] k = 3 -> Shape3(rec).out
      [] k = 4 -> Shape4(rec).out
      [] OTHER -> <<>>

\* C11: the entries a handled record gives are those of the transform of the
\* first test it passes, in the order screw_type; title with dimensions_unit
\* or data; a count or weight map; title with unit - and of no other.  A
\* record with title, data and a count map gives the one entry of shape 2.
C11_FirstMatchingShape ==
    \A i \in 1..Len(catLog) :
        /\ EntriesOf(i) = TransformOfShape(catRaw[i], FirstTest(catRaw[i]))
        /\ catRaw[i] = Rec.FlatWithCounts =>
              /\ catLog[i].count = 1
              /\ Get(EntriesOf(i)[1], CatKey.screw_type, NoneVal) = Get(catRaw[i], CatKey.title, NoneVal)
              /\ Get(EntriesOf(i)[1], CatKey.unit, NoneVal) = Str(CatText.NA)

\* C11 witness: a record with title, data and a count map, then a record
\* with title, unit and a count map, have been normalized to one entry each
C11_Witness ==
    /\ catPc = "returned"
    /\ catRaw = <<Rec.FlatWithCounts, Rec.NutsWithUnit>>
    /\ Len(catOut) = 2
    /\ Get(catOut[1], CatKey.screw_type, NoneVal) = Str(<<"L","o","c","k">>)
    /\ Get(catOut[2], CatKey.unit, NoneVal) = Str(CatText.count_unit)

\* the diameter keys of the rows of a table of an entry
DiameterKeys(entry, table) ==
    LET rows == Get(entry, table, List(<<>>)).v IN
    UNION { {Get(rows[i].v, CatKey.diameter, Dict(<<>>)).v[j][1] :
                j \in 1..Len(Get(rows[i].v, CatKey.diameter, Dict(<<>>)).v)} : i \in 1..Len(rows) }

\* C12: the entry of every handled record with a screw_type key has no space
\* in a metric diameter key and no surrounding space in an inch diameter key,
\* and a screw_type containing "stud price" has become "Stud Screw".
C12_Shape1Cleaned ==
    \A i \in 1..Len(catLog) :
        HasKey(catRaw[i], CatKey.screw_type) =>
            /\ catLog[i].count = 1
            /\ \A k \in DiameterKeys(EntriesOf(i)[1], CatKey.dimensions_in_metric) :
                  \A h \in 1..Len(k) : k[h] # " "
            /\ \A k \in DiameterKeys(EntriesOf(i)[1], CatKey.dimensions_in_inches) :
                  k = <<>> \/ (k[1] # " " /\ k[Len(k)] # " ")
            /\ IsSubstr(CatText.stud_price, LowerStr(Get(catRaw[i], CatKey.screw_type, NoneVal).v)) =>
                  Get(EntriesOf(i)[1], CatKey.screw_type, NoneVal) = Str(CatText.Stud_Screw)

\* the keys of a dict value, in order
KeysOf(x) == [i \in 1..Len(x.v) |-> x.v[i][1]]

\* the screw_type texts the documented explosion of a record gives
ExpectedTypes(rec) ==
    CASE FirstTest(rec) = 3 ->
           LET title == TextOf(Get(rec, CatKey.title, Str(CatText.Nut)))
               ks == KeysOf(Get(rec, CatKey.approx_count_per_50_kgs, Dict(<<>>)))
                       \o KeysOf(Get(rec, CatKey.hex_locknuts, Dict(<<>>)))
           IN  [j \in 1..Len(ks) |-> title \o <<" ", "-", " ">> \o ks[j]]
      [] FirstTest(rec) = 4 ->
           LET ks == SelectSeq(KeysOf(Dict(rec)), LAMBDA k : k # CatKey.title /\ k # CatKey.unit)
           IN  ks

\* C13: normalized is the concatenation, in record order, of the entries of
\* the records handled; a shape-1 or shape-2 record gives one entry, a
\* shape-3 or shape-4 record one entry per key of its nested map in the
\* map's order, a record of no shape none.
C13_OrderAndCounts ==
    /\ Len(catOut) = EntriesBefore(Len(catLog) + 1)
    /\ \A i \in 1..Len(catLog) :
          /\ EntriesOf(i) = Transform(catRaw[i]).out
          /\ FirstTest(catRaw[i]) \in {1, 2} => catLog[i].count = 1
          /\ FirstTest(catRaw[i]) = 0 => catLog[i].count = 0
          /\ FirstTest(catRaw[i]) \in {3, 4} =>
                /\ catLog[i].count = Len(ExpectedTypes(catRaw[i]))
                /\ \A j \in 1..catLog[i].count :
                      Get(EntriesOf(i)[j], CatKey.screw_type, NoneVal)
                          = Str(ExpectedTypes(catRaw[i])[j])

\* C13 witness: a record of no shape and a washer record with two sub-types
\* have been normalized to the two washer entries, plain before spring
C13_Witness ==
    /\ catPc = "returned"
    /\ catRaw = <<Rec.Unknown, Rec.Washers>>
    /\ Len(catOut) = 2
    /\ Get(catOut[1], CatKey.screw_type, NoneVal) = Str(<<"p","l","a","i","n">>)
    /\ Get(catOut[2], CatKey.screw_type, NoneVal) = Str(<<"s","p","r","i","n","g">>)

\* C14: normalization never ends in an error state, whatever the records.
C14_NoErrorState == catPc # "raised"


-----------------------------------------------------------------------------
(* Properties of the filter cascade, checked under SpecCas *)

\* the labels of a pass as the final list shows them: non-empty, stripped
Shown(out) ==
    LET kept == SelectSeq(out, LAMBDA d : d # <<>>)
    IN  [k \in 1..Len(kept) |-> Strip(kept[k])]

\* list holds every element of xs once, in the order of first occurrence
FirstOccurrences(list, xs) ==
    /\ \A a, b \in 1..Len(list) : a # b => list[a] # list[b]
    /\ {list[k] : k \in 1..Len(list)} = {xs[k] : k \in 1..Len(xs)}
    /\ \A a, b \in 1..Len(list) : a < b => FirstAt(xs, list[a]) < FirstAt(xs, list[b])

\* C15: pass 2 runs only when pass 1 produced no label and a family is
\* selected, pass 3 runs only when no earlier pass produced a label, and the
\* returned list holds the labels of exactly one pass (every other pass that
\* ran produced none), without duplicates and in discovery order.
C15_FirstNonEmptyPass ==
    /\ \A k \in 1..Len(casRan) :
          /\ casRan[k].pass = 2 => casRan[1].out = <<>> /\ casIn.family # <<>>
          /\ casRan[k].pass = 3 => \A j \in 1..(k - 1) : casRan[j].out = <<>>
    /\ casPc = "done" =>
          \E k \in 1..Len(casRan) :
             /\ \A j \in 1..Len(casRan) : j # k => casRan[j].out = <<>>
             /\ FirstOccurrences(casList, Shown(casRan[k].out))

\* pass 1 found nothing, pass 2 found the labels of the selected family, pass 3
\* did not run, and the list came out with more than one label
C15_Witness ==
    /\ casPc = "done"
    /\ Len(casRan) = 2
    /\ casRan[2].pass = 2
    /\ Len(casList) > 1

\* pass 3 supplied the list after both earlier passes ran empty
C15_WitnessPass3 ==
    /\ casPc = "done"
    /\ Len(casRan) = 3
    /\ casList # <<>>


-----------------------------------------------------------------------------
(* Properties of build_din_index, checked under SpecDin *)

\* the finishes a document names, in document order: the strings of its
\* top-level finish lists (and of the lists nested in them) and the tokens of
\* the finish fields of its records
DocFinishes(data) ==
    IF data.tag = "dict"
    THEN Concat([i \in 1..Len(data.v) |->
                   IF data.v[i][2].tag # "list" THEN <<>>
                   ELSE IF IsSubstr(DinKey.finish, LowerStr(data.v[i][1]))
                   THEN TopFinishes(data.v[i][2].v)
                   ELSE Concat([k \in 1..Len(data.v[i][2].v) |->
                                  IF data.v[i][2].v[k].tag = "dict"
                                  THEN EntryFinishes(data.v[i][2].v[k].v) ELSE <<>>])])
    ELSE Concat([k \in 1..Len(data.v) |->
                   IF data.v[k].tag = "dict" THEN EntryFinishes(data.v[k].v) ELSE <<>>])

\* the tokens of a sequence of finishes: trimmed, upper-cased, the empty ones left out
FinishTokens(fs) ==
    SelectSeq([k \in 1..Len(fs) |-> UpperStr(Strip(fs[k]))], LAMBDA f : f # <<>>)

\* C16: the finish vocabulary build_din_index returns holds only non-empty,
\* trimmed, upper-cased tokens, no two of them equal ignoring case, in the order
\* of their first occurrence in the document (top-level finish lists and
\* finish fields of records alike), and no top-level key that contains
\* "finish" and holds a list has become a category.
C16_FinishVocabulary ==
    dinPc = "returned" =>
        /\ \A k \in 1..Len(dinFin) :
              dinFin[k] # <<>> /\ dinFin[k] = UpperStr(dinFin[k]) /\ dinFin[k] = Strip(dinFin[k])
        /\ \A a, b \in 1..Len(dinFin) : a # b => LowerStr(dinFin[a]) # LowerStr(dinFin[b])
        /\ FirstOccurrences(dinFin, FinishTokens(DocFinishes(dinData)))
        /\ dinData.tag = "dict" =>
              \A i \in 1..Len(dinData.v) :
                 IsSubstr(DinKey.finish, LowerStr(dinData.v[i][1])) /\ dinData.v[i][2].tag = "list" =>
                    \A c \in 1..Len(dinSt.categories) :
                       ~StartsWith(LowerStr(Strip(dinData.v[i][1])), dinSt.categories[c][1])

\* a mapping whose nuts come before its top-level finish list: "BLACK" and
\* "ZINC" are first named by a record, "HDG" by the list, and the only
\* category is that of the nuts
C16_Witness ==
    /\ dinPc = "returned"
    /\ dinData.tag = "dict"
    /\ Len(dinData.v) = 2
    /\ dinData.v[2][1] = <<"F","i","n","i","s","h","e","s">>
    /\ dinFin = <<<<"B","L","A","C","K">>, <<"Z","I","N","C">>, <<"H","D","G">>>>
    /\ Len(dinSt.categories) = 1


-----------------------------------------------------------------------------
(* Properties of the normalizers, checked under SpecNm *)

\* C17: normalized_token_in_text is true exactly when the strict-normalized
\* token is a non-empty substring of the strict-normalized text or the
\* space-preserving-normalized token (not empty) matches at word boundaries in
\* the space-preserving-normalized text; "M10" matches "M-10", and "NUT", which
\* occurs only inside a longer word of "PEANUT", does not match it.
C17_TokenInText ==
    nmPc = "matched" =>
        /\ nmOut.hit <=>
              \/ /\ normalize(nmIn.token) # <<>>
                 /\ IsSubstr(normalize(nmIn.token), normalize(nmIn.text))
              \/ /\ normalize_preserve_space(nmIn.token) # <<>>
                 /\ WordBoundarySearch(normalize_preserve_space(nmIn.token),
                                       normalize_preserve_space(nmIn.text))
        /\ nmIn.token = <<"M","1","0">> /\ nmIn.text = <<"M","-","1","0">> => nmOut.hit
        /\ nmIn.token = <<"N","U","T">> /\ nmIn.text = <<"P","E","A","N","U","T">> => ~nmOut.hit

\* the letters and digits of a text in order, the letters upper-cased
RECURSIVE LettersAndDigits(_)
LettersAndDigits(text) ==
    IF text = <<>> THEN <<>>
    ELSE IF IsAlpha(Head(text)) \/ IsDigit(Head(text))
    THEN <<UpperChar(Head(text))>> \o LettersAndDigits(Tail(text))
    ELSE LettersAndDigits(Tail(text))

\* C18: the result of normalize holds only characters of [A-Z0-9], it is the
\* letters and digits of the text in order with the letters upper-cased (no
\* digit is dropped), normalizing the result again changes nothing, and
\* normalize("M 10") = normalize("M10") = "M10".
C18_Normalize ==
    /\ nmPc \in {"normalized", "again"} =>
          /\ \A k \in 1..Len(nmOut.norm) : IsUpper(nmOut.norm[k]) \/ IsDigit(nmOut.norm[k])
          /\ nmOut.norm = LettersAndDigits(nmIn.text)
          /\ nmIn.text \in {<<"M"," ","1","0">>, <<"M","1","0">>} => nmOut.norm = <<"M","1","0">>
    /\ nmPc = "again" => nmOut.again = nmOut.norm

\* "M 10" was normalized twice and gave "M10" both times
C18_Witness ==
    /\ nmPc = "again"
    /\ nmIn.text = <<"M"," ","1","0">>
    /\ nmOut.norm = <<"M","1","0">>
    /\ nmOut.again = <<"M","1","0">>


-----------------------------------------------------------------------------
(* Properties of find_all_synonym_matches, checked under SpecSyn *)

\* the pairs (phrase, main) of a synonym map, in map order
RECURSIVE AllPairs(_)
AllPairs(synonyms_dict) ==
    IF synonyms_dict = <<>> THEN <<>>
    ELSE LET main == Head(synonyms_dict)[1]
             syns == Head(synonyms_dict)[2]
             phrases == IF syns.tag = "list" THEN syns.v ELSE <<syns>>
         IN  [k \in 1..Len(phrases) |-> <<phrases[k].v, main>>] \o AllPairs(Tail(synonyms_dict))

\* the phrase of a pair (not empty) is contained in the description, ignoring case
Contained(pair, desc) == pair[1] # <<>> /\ IsSubstr(UpperStr(pair[1]), UpperStr(desc))

\* the phrase of a pair contains one of the Allen and cap screw words, ignoring case
AllenPhrase(pair) ==
    \E w \in {SynText.CAPSCREW, SynText.ALLEN_CAP, SynText.SOCKET_CAP, SynText.ALLEN} :
        IsSubstr(w, UpperStr(pair[1]))

\* C19: for a description that contains "CAPSCREW" and one of "HEX HD",
\* "HEXHD", "HEX HEAD" (upper-cased), the list returned is exactly the pairs of
\* the synonym map whose phrase is contained in the description ignoring case
\* and whose main is ALLEN CAP SCREW or HEX BOLT (in any case of letters); no
\* pair with another main is in it.
C19_SpecialCase ==
    synPc = "special" =>
        /\ synOut = SelectSeq(AllPairs(synIn.synonyms_dict),
                              LAMBDA pr : /\ Contained(pr, synIn.desc)
                                          /\ UpperStr(pr[2]) \in {SynText.ALLEN_CAP_SCREW,
                                                                  SynText.HEX_BOLT})
        /\ \A k \in 1..Len(synOut) :
              UpperStr(synOut[k][2]) \in {SynText.ALLEN_CAP_SCREW, SynText.HEX_BOLT}

\* "capscrew hex hd" against a map of three mains: the phrases of ALLEN CAP
\* SCREW and of Hex Bolt are returned, the contained phrase "hex" of NUT is not
C19_Witness ==
    /\ synPc = "special"
    /\ Len(synIn.synonyms_dict) = 3
    /\ \E i \in 1..3 : synIn.synonyms_dict[i] = SynEntry.Nut
    /\ Len(synOut) = 3
    /\ \E k \in 1..3 : synOut[k][2] = <<"H","e","x"," ","B","o","l","t">>

\* C20: for a description outside the special case the list returned is, in
\* map order, every pair whose phrase is contained in the description ignoring
\* case, except that a pair whose phrase contains "CAPSCREW", "ALLEN CAP",
\* "SOCKET CAP" or "ALLEN" is returned only when its main is ALLEN CAP SCREW;
\* an empty description returns the empty list.
C20_DefaultCase ==
    /\ synPc = "regular" =>
          synOut = SelectSeq(AllPairs(synIn.synonyms_dict),
                             LAMBDA pr : /\ Contained(pr, synIn.desc)
                                         /\ AllenPhrase(pr) =>
                                               UpperStr(pr[2]) = SynText.ALLEN_CAP_SCREW)
    /\ synPc = "empty" => synIn.desc = <<>> /\ synOut = <<>>

\* "Allen bolt hex" against a map that starts with SOCKET SCREW: its contained
\* phrase "allen" is left out, "hex" of NUT and "Allen bolt" of ALLEN CAP SCREW
\* are returned in map order
C20_Witness ==
    /\ synPc = "regular"
    /\ Len(synIn.synonyms_dict) = 3
    /\ synIn.synonyms_dict[1] = SynEntry.Socket
    /\ synOut = <<<<<<"h","e","x">>, <<"N","U","T">>>>, <<<<"A","l","l","e","n"," ","b","o","l","t">>, <<"A","L","L","E","N"," ","C","A","P"," ","S","C","R","E","W">>>>>>


-----------------------------------------------------------------------------
(* Properties of detect_dimension_unit, checked under SpecDu *)

\* C21: each detect_dimension_unit definition returns "metric" when one of
\* its metric patterns matches, otherwise "inch" when one of its inch
\* patterns matches, and otherwise the empty text, never a guessed default:
\* "M10 X 50" gives "metric", the 1/2-inch by 2-inch hex bolt gives "inch" and
\* the empty description gives the empty text.
C21_DetectUnit ==
    /\ duPc = "app3" =>
          duOut = IF MetricPattern(UpperX(duIn)) THEN <<"m","e","t","r","i","c">>
                  ELSE IF InchPattern(UpperX(duIn)) THEN <<"i","n","c","h">> ELSE <<>>
    /\ duPc = "synonyms" =>
          duOut = IF MetricPatternSynonyms(UpperX(duIn)) THEN <<"m","e","t","r","i","c">>
                  ELSE IF InchPatternSynonyms(UpperX(duIn)) THEN <<"i","n","c","h">> ELSE <<>>
    /\ duPc \in {"app3", "synonyms"} =>
          /\ duIn = <<"M","1","0"," ","X"," ","5","0">> => duOut = <<"m","e","t","r","i","c">>
          /\ duIn = <<"1","/","2","\""," ","X"," ","2","\""," ","H","E","X"," ","B","O","L","T">> => duOut = <<"i","n","c","h">>
          /\ duIn = <<>> => duOut = <<>>


-----------------------------------------------------------------------------
(* Properties of get_grades_from_desc, checked under SpecGr *)

\* the strict-normalized grade, not empty, is contained in the
\* strict-normalized description
ExactGrade(g) ==
    normalize(g) # <<>> /\ IsSubstr(normalize(g), normalize(grIn.desc))

\* C22: the list get_grades_from_desc returns has no grade twice; every
\* reference grade whose strict-normalized form is contained in the
\* strict-normalized description is in it, and no grade that matched otherwise
\* stands ahead of such a grade; with or without candidate terms.
C22_ExactGradeFirst ==
    grPc = "returned" =>
        /\ \A a, b \in 1..Len(grOut) : a # b => grOut[a] # grOut[b]
        /\ \A k \in 1..Len(grIn.all_grades) :
              ExactGrade(grIn.all_grades[k]) => InList(grIn.all_grades[k], grOut)
        /\ \A a, b \in 1..Len(grOut) :
              a < b /\ ExactGrade(grOut[b]) => ExactGrade(grOut[a])


-----------------------------------------------------------------------------
(* Properties of the family filter of the cascade, checked under SpecCas *)

\* the family of the item differs from the selected family
FamilyDiffers(it) == casIn.family # <<>> /\ FamilyOfItem(it) # casIn.family

\* a bare numeric standard and no metrics
BareNumeric(it) ==
    Strip(it.standard) # <<>> /\ IsDigit(Strip(it.standard)[1]) /\ MetricsRaw(it) = <<>>

\* the values an item holds: its standard, its inches, its metrics and their parts
OwnValues(it) ==
    {Strip(it.standard), Strip(it.inches), MetricsRaw(it)}
        \cup {SplitParts(MetricsRaw(it))[k] : k \in 1..Len(SplitParts(MetricsRaw(it)))}

\* a label of the output of a pass that a record may have contributed: a value
\* of a record of the selected family, or the synthesized label of a record of
\* another family with a bare numeric standard and no metrics
FromFamily(label) ==
    \E j \in 1..Len(casIn.items) :
        \/ ~FamilyDiffers(casIn.items[j]) /\ label \in OwnValues(casIn.items[j])
        \/ /\ FamilyDiffers(casIn.items[j]) /\ BareNumeric(casIn.items[j])
           /\ label = casIn.family \o <<" ">> \o Strip(casIn.items[j].standard)

\* C23: in pass 1 and pass 2 a record whose family differs from the selected
\* family contributes nothing, except that a record with a bare numeric
\* standard and no metrics contributes the synthesized label "family standard"
\* and nothing else: every label of the output of these passes is a value of a
\* record of the selected family or such a synthesized label.
C23_FamilyFilter ==
    \A r \in 1..Len(casRan) :
        casRan[r].pass \in {1, 2} =>
            \A k \in 1..Len(casRan[r].out) : FromFamily(casRan[r].out[k])


-----------------------------------------------------------------------------
(* Properties of the family derivation, checked under SpecFam *)

FamilyNames == {CasText.families[k] : k \in 1..Len(CasText.families)}

\* the leading alphabetic prefix of a text
RECURSIVE LeadingAlpha(_)
LeadingAlpha(s) ==
    IF s = <<>> \/ ~IsAlpha(Head(s)) THEN <<>> ELSE <<Head(s)>> \o LeadingAlpha(Tail(s))

\* C24: for every non-empty standard the family derived is a member of
\* {DIN, ISO, ASTM, ASME, ANSI, BS, OTHER}: the leading alphabetic prefix of
\* the standard when it is one of the six known families, OTHER otherwise;
\* in the family options and in the cascade, in both programs.
C24_StandardFamily ==
    famPc \in {"app3", "synonyms"} /\ Strip(famIn) # <<>> =>
        /\ famOut \in FamilyNames \cup {CasText.other}
        /\ famOut = IF LeadingAlpha(UpperStr(Strip(famIn))) \in FamilyNames
                    THEN LeadingAlpha(UpperStr(Strip(famIn)))
                    ELSE CasText.other


-----------------------------------------------------------------------------
(* Properties of pass 3 of the cascade, checked under SpecCas *)

\* the values of the metrics lists of the records, and of their inches fields
MetricsValues ==
    UNION {{SplitParts(MetricsRaw(casIn.items[j]))[k] :
               k \in 1..Len(SplitParts(MetricsRaw(casIn.items[j])))} : j \in 1..Len(casIn.items)}

InchesValues == {Strip(casIn.items[j].inches) : j \in 1..Len(casIn.items)}

\* C25: pass 3 respects the unit preference: with unit "metric" its output
\* holds only values of the records' metrics, with unit "inch" only values of
\* the records' inches fields; only with no unit selected may metrics,
\* standard and inches values all appear.
C25_Pass3Unit ==
    \A r \in 1..Len(casRan) :
        casRan[r].pass = 3 =>
            /\ casIn.unit = CasText.metric =>
                  \A k \in 1..Len(casRan[r].out) : casRan[r].out[k] \in MetricsValues
            /\ casIn.unit = CasText.inch =>
                  \A k \in 1..Len(casRan[r].out) : casRan[r].out[k] \in InchesValues


-----------------------------------------------------------------------------
(* Properties of the entries of build_din_index, checked under SpecDin *)

\* the items of all categories
IndexItems ==
    Concat([c \in 1..Len(dinSt.categories) |-> dinSt.categories[c][2]])

\* a list of strings, none of which still holds a comma or a semicolon
SplitStrings(metrics) ==
    /\ metrics.tag = "list"
    /\ \A k \in 1..Len(metrics.v) :
          /\ metrics.v[k].tag = "str"
          /\ \A j \in 1..Len(metrics.v[k].v) : metrics.v[k].v[j] \notin {",", ";"}

\* C26: every entry of the index built, from a mapping or from a flat list,
\* has metrics as a list of strings, a comma- or semicolon-joined metrics
\* string being split into its parts, and finishes as a list of upper-cased
\* strings.
C26_EntryShape ==
    dinPc = "returned" =>
        \A i \in 1..Len(IndexItems) :
            /\ SplitStrings(IndexItems[i].metrics)
            /\ \A k \in 1..Len(IndexItems[i].finishes) :
                  IndexItems[i].finishes[k] = UpperStr(IndexItems[i].finishes[k])


\* the top-level items of a mapping that give the index entries: the lists,
\* other than the finish lists, that hold a record
GivesEntries(topk, val) ==
    /\ val.tag = "list"
    /\ ~IsSubstr(DinKey.finish, LowerStr(Strip(topk)))
    /\ \E k \in 1..Len(val.v) : val.v[k].tag = "dict"

\* the text without its last character when that is "s"
WithoutLastS(s) == IF s # <<>> /\ s[Len(s)] = "s" THEN SubSeq(s, 1, Len(s) - 1) ELSE s

\* C27: for a mapping the category key is the lower-cased, trimmed top-level
\* key with exactly one trailing "s" removed when it ends in "s": a key ending
\* in more than one "s" loses only the last, a key not ending in "s" is
\* unchanged.
C27_CategoryKey ==
    dinPc = "returned" /\ dinData.tag = "dict" =>
        /\ \A i \in 1..Len(dinData.v) :
              GivesEntries(dinData.v[i][1], dinData.v[i][2]) =>
                 \E c \in 1..Len(dinSt.categories) :
                    dinSt.categories[c][1] = WithoutLastS(LowerStr(Strip(dinData.v[i][1])))
        /\ \A c \in 1..Len(dinSt.categories) :
              \E i \in 1..Len(dinData.v) :
                 dinSt.categories[c][1] = WithoutLastS(LowerStr(Strip(dinData.v[i][1])))


-----------------------------------------------------------------------------
(* The two tiers of normalized_token_in_text, checked under SpecNm *)

\* C28: the word-boundary tier of normalized_token_in_text never changes the
\* result: for every token and text the function is true exactly when the
\* strict-normalized token is not empty and is contained in the
\* strict-normalized text.
C28_BoundaryTierIdle ==
    nmPc = "matched" =>
        (nmOut.hit <=> /\ normalize(nmIn.token) # <<>>
                       /\ IsSubstr(normalize(nmIn.token), normalize(nmIn.text)))

\* the word-boundary tier is reached and finds nothing: "M 10" in "M 1"
C28_Witness ==
    /\ nmPc = "matched"
    /\ nmIn.token = <<"M"," ","1","0">>
    /\ nmIn.text = <<"M"," ","1">>
    /\ ~IsSubstr(normalize(nmIn.token), normalize(nmIn.text))
    /\ ~WordBoundarySearch(normalize_preserve_space(nmIn.token),
                           normalize_preserve_space(nmIn.text))
    /\ ~nmOut.hit


-----------------------------------------------------------------------------
(* The two conversions compared, and the zero rate, checked under SpecCalc *)

\* C29: the combo and the single-item conversion agree: for every unit string
\* and every non-zero rate both compute the same per-piece weight, also for a
\* unit with none of the known markers and for a unit with both a per-100
\* marker and the count-per-50 marker.  The weight a calculation stored is
\* the weight the other mode's conversion gives for the same unit and rate.
C29_ModesAgree ==
    calcMode # None /\ calcRate # NoRate /\ calcRate # 0 =>
        /\ calcMode = "single" => calcWeight = ComboWeight(calcEntries[1].unit, calcRate)
        /\ calcMode = "combo" => calcWeight = SingleItemWeight(calcEntries[1].unit, calcRate)

\* the rows find_rate reads hold, under the requested diameter, nothing but
\* zero rates (or no rate at all), and at least one zero
OnlyZeroRates ==
    /\ \A e \in 1..Len(calcEntries) :
          \A r \in 1..Len(calcEntries[e][DimsKey(calcDim)]) :
             DiaGet(calcEntries[e][DimsKey(calcDim)][r].diameter, calcDia) \in {NoRate, 0}
    /\ \E e \in 1..Len(calcEntries) :
          \E r \in 1..Len(calcEntries[e][DimsKey(calcDim)]) :
             /\ RowMatches(calcEntries[e][DimsKey(calcDim)][r], calcLen)
             /\ DiaGet(calcEntries[e][DimsKey(calcDim)][r].diameter, calcDia) = 0

\* C30: 50/value is never evaluated with value = 0: find_rate skips a zero
\* rate as if the diameter were absent and never returns it, both
\* calculations convert only a rate that find_rate returned, and a catalogue
\* whose only rates are zero gives "no rate found" and no weight.
C30_NoDivisionByZero ==
    calcMode # None =>
        /\ calcRate # 0
        /\ calcWeight # NoWeight => calcRate # NoRate /\ calcWeight[2] # 0
        /\ OnlyZeroRates => calcRate = NoRate /\ calcWeight = NoWeight

\* a single-item calculation over a length-agnostic row with rate 0 under a
\* count-per-50 unit ended without a rate
C30_Witness ==
    /\ calcMode = "single"
    /\ OnlyZeroRates
    /\ calcEntries[1].unit = UnitCountPer50
    /\ calcRate = NoRate
    /\ calcWeight = NoWeight

\* a combo calculation where a zero rate in the first matching row was passed
\* over and the rate of a later row was converted
C30_WitnessCombo ==
    /\ calcMode = "combo"
    /\ calcDim = "metric"
    /\ Len(calcEntries) = 1
    /\ Len(calcEntries[1].dimensions_in_metric) = 2
    /\ RowMatches(calcEntries[1].dimensions_in_metric[1], calcLen)
    /\ DiaGet(calcEntries[1].dimensions_in_metric[1].diameter, calcDia) = 0
    /\ calcEntries[1].unit = UnitCountPer50
    /\ calcRate = 2000
    /\ calcWeight = <<1, 40>>

=============================================================================
